---- MODULE Spec2Model ----
(***************************************************************************)
(* Model of the customer-insights bot: the analysis pipeline of            *)
(* services/jira_client.py (JiraAnalyzer) and the webhook dispatcher of    *)
(* bot.py (slack_events and its handlers and background threads).          *)
(***************************************************************************)
EXTENDS Integers, Sequences, FiniteSets, TLC

(***************************************************************************)
(* Bounds of the model.                                                    *)
(***************************************************************************)
MaxIssues == 2
MaxDeliveries == 3
MaxThreads == 2
MaxTime == 1
MaxPerBucket == 8
MaxQueryLen == 3
MaxHandlers == 2
MaxNameLen == 2
MaxFlows == 2

(***************************************************************************)
(* Program constants.                                                      *)
(***************************************************************************)
max_retries == 3
RESPONSE_COOLDOWN == 2
batch_size == 45
CACHE_DURATION == 3600

VARIABLES
    \* ---- one call of JiraAnalyzer.get_component_analysis ----
    a_pc,            \* position of the call
    component_name,  \* its argument
    issues,          \* what jira.search_issues returns for the query
    attempt,         \* loop variable of get_component_analysis
    list_attempt,    \* loop variable of get_available_components
    task,            \* state of each summarize_issue task of the executor
    results,         \* value (or exception) each task ended with
    llm_out,         \* what the LLM answered to each task of this attempt
    completion,      \* indices of the tasks in their order of completion
    llm_calls,       \* LLM calls made for each issue during the whole call
    sleeps,          \* the time.sleep durations of get_component_analysis
    list_sleeps,     \* the time.sleep durations of the running
                     \* get_available_components call
    failures,        \* cause of each failed attempt, in order
    outcome,         \* the mapping returned (valid when a_pc = "returned")
    all_components,  \* what get_available_components returned last
    jql              \* the component name in the query of this attempt

avars == <<a_pc, component_name, issues, attempt, list_attempt, task, results,
           llm_out, completion, llm_calls, sleeps, list_sleeps, failures,
           outcome, all_components, jql>>

VARIABLES
    \* ---- bot.py: module state, the request thread, background threads ----
    processed_requests,  \* set of request ids
    processed_messages,  \* set of message keys
    cached_components,   \* the directory cache
    now,                 \* the clock, in seconds
    deliveries,          \* number of webhook requests received so far
    h_pc,                \* request thread: "idle" or "responding"
    h_req,               \* the payload it handles (or handled last)
    h_resp,              \* the HTTP response it returns
    h_calls,             \* the collaborator calls it made for h_req
    h_spawned,           \* whether it started a background thread
    h_dup,               \* whether an earlier delivery carried its key
    threads,             \* the background threads, in order of start
    seen,                \* the dedup keys delivered so far
    started,             \* per dedup key: deliveries that started work
    tracker_components,  \* the component names the tracker holds
    refreshed_at,        \* when cached_components was last assigned
    mentions             \* the app_mention events delivered so far

wvars == <<processed_requests, processed_messages, cached_components, now,
           deliveries, h_pc, h_req, h_resp, h_calls, h_spawned, h_dup,
           threads, seen, started, tracker_components, refreshed_at,
           mentions>>

VARIABLES
    \* ---- one application of a function to an argument ----
    f_pc,                \* "ready" before the application, "done" after
    f_arg,               \* the argument
    f_val                \* the value returned (valid when f_pc = "done")

fvars == <<f_pc, f_arg, f_val>>

VARIABLES
    \* ---- request threads of the server running slack_events at once ----
    r_pc,                \* position of each request thread
    r_req                \* the payload each handles

rvars == <<r_pc, r_req>>

vars == <<avars, wvars, fvars, rvars>>

\* What the steps of each part leave alone.
outsideAnalysis == <<wvars, fvars, rvars>>
outsideWebhook == <<avars, fvars, rvars>>
outsideFunction == <<avars, wvars, rvars>>
outsideGuards == <<avars, fvars>>

(***************************************************************************)
(* Text.  Component names are strings; str.lower() is modelled on the      *)
(* names the model uses.                                                   *)
(***************************************************************************)
Lower(s) ==
    CASE s = "Maps" -> "maps"
      [] s = "MAPS" -> "maps"
      [] s = "Jobs" -> "jobs"
      [] OTHER -> s

\* Python's None for a customer value.
NoneValue == "<None>"

(***************************************************************************)
(* Tracker issues.  customfield_11602 is modelled by its shape:            *)
(*   "none"    None or an empty list (falsy)                               *)
(*   "optlist" a non-empty list whose first element has .value             *)
(*   "option"  a single object with .value                                 *)
(*   "rawlist" a non-empty list whose first element has no .value          *)
(*   "scalar"  a truthy value that is no list and has no .value (a date)   *)
(* priority: 0 = no priority or a name holding no "Class k", else k.       *)
(* title: the class of a marker glyph inside fields.summary, 0 = none.     *)
(***************************************************************************)
Issue(comps, shape, value, prio, title) ==
    [components |-> comps, cf |-> [shape |-> shape, value |-> value],
     priority |-> prio, title |-> title]

IssueTemplates ==
    { Issue({"Maps"}, "optlist", "Acme", 1, 0),
      Issue({"Maps"}, "option", "Acme", 3, 2),
      Issue({"maps", "Jobs"}, "optlist", "Bolt", 2, 0),
      Issue({"Maps"}, "none", "", 1, 0),
      Issue({"Maps"}, "rawlist", "Acme", 1, 0),
      Issue({"Jobs"}, "optlist", "Acme", 1, 0),
      Issue({"Maps"}, "option", "", 1, 0),
      Issue({"Maps"}, "scalar", "2024-01-01", 2, 0) }

IssueLists == UNION { [1..n -> IssueTemplates] : n \in 0..MaxIssues }

(***************************************************************************)
(* The LLM's answer to one prompt: it fails (any exception of the call),   *)
(* or returns a text; glyph is the class of a marker glyph inside that     *)
(* text (0 = none).                                                        *)
(***************************************************************************)
LLMOutcomes ==
    { [ok |-> FALSE, text |-> "", glyph |-> 0],
      [ok |-> TRUE, text |-> "Impact: a Fix: b Test: c", glyph |-> 0],
      [ok |-> TRUE, text |-> "Impact: red Fix: b Test: c", glyph |-> 1] }

(***************************************************************************)
(* summarize_issue: the customer value read from customfield_11602.        *)
(* "raise" stands for the AttributeError of customer_field[0].value.       *)
(***************************************************************************)
CustomerRaises(cf) == cf.shape = "rawlist"

CustomerValue(cf) ==
    IF cf.shape \in {"optlist", "option"} THEN cf.value ELSE NoneValue

\* The glyph priority_text puts in front of the title: the class the
\* priority name holds, if any.
PriorityGlyph(issue) == issue.priority

\* final_gpt_summary of the try branch (the LLM answered) and of the except
\* branch (title and link only: the title_link built before the try).
FullSummary(key, issue, llm) ==
    [key |-> key, prio |-> PriorityGlyph(issue), title |-> issue.title,
     text |-> llm.text, glyph |-> llm.glyph]

TitleOnlySummary(key, issue) ==
    [key |-> key, prio |-> 0, title |-> issue.title, text |-> "", glyph |-> 0]

\* The tuple summarize_issue returns for the issue at position key of the
\* query result, or the exception that leaves it.  A failure of the customer
\* extraction inside the try is caught by the bare except, whose own
\* extraction then raises the same error outside any handler.
summarize_issue(key, issue, llm) ==
    IF CustomerRaises(issue.cf)
    THEN [raised |-> TRUE, key |-> key, components |-> {},
          customer |-> NoneValue, gpt_summary |-> TitleOnlySummary(key, issue)]
    ELSE [raised |-> FALSE, key |-> key, components |-> issue.components,
          customer |-> CustomerValue(issue.cf),
          gpt_summary |-> IF llm.ok THEN FullSummary(key, issue, llm)
                          ELSE TitleOnlySummary(key, issue)]

\* Placeholder of a task that has not ended.
NoResult ==
    [raised |-> FALSE, key |-> 0, components |-> {}, customer |-> NoneValue,
     gpt_summary |-> [key |-> 0, prio |-> 0, title |-> 0, text |-> "",
                      glyph |-> 0]]

(***************************************************************************)
(* executor.map: the results in the order of the submitted issues,         *)
(* whatever the order in which the tasks ended.                            *)
(***************************************************************************)
CollectInCompletionOrder(res, done) == [k \in 1..Len(done) |-> res[done[k]]]

CollectResults(res, done) == [k \in 1..Len(done) |-> res[k]]

(***************************************************************************)
(* get_component_analysis: the grouping.                                   *)
(***************************************************************************)
\* The marker glyphs that occur in a summary's text.
Glyphs(s) == {s.prio, s.title, s.glyph} \ {0}

\* Lines 295-302: the first of the three markers found; 0 = none (continue).
PriorityLowestFirst(s) ==
    IF 3 \in Glyphs(s) THEN 3
    ELSE IF 2 \in Glyphs(s) THEN 2
    ELSE IF 1 \in Glyphs(s) THEN 1
    ELSE 0

PriorityOf(s) ==
    IF 1 \in Glyphs(s) THEN 1
    ELSE IF 2 \in Glyphs(s) THEN 2
    ELSE IF 3 \in Glyphs(s) THEN 3
    ELSE 0

\* Lines 269-276: the issues that carry the component, whatever the case.
CarriesComponent(d, name) ==
    \E c \in d.components : Lower(c) = Lower(name)

\* Line 282: "if not customer".
NoCustomer(customer) == customer = NoneValue \/ customer = ""

EmptyFlows == [keys |-> <<>>, map |-> <<>>]

EmptyClasses == [k \in 1..3 |-> <<>>]

\* One iteration of the loop of lines 279-306 on the mapping so far.  keys is
\* the insertion order of the dict.
GroupStep(flows, d) ==
    IF NoCustomer(d.customer) THEN flows
    ELSE LET known == d.customer \in DOMAIN flows.map
             keys1 == IF known THEN flows.keys
                      ELSE Append(flows.keys, d.customer)
             map1 == IF known THEN flows.map
                     ELSE [c \in DOMAIN flows.map \cup {d.customer} |->
                             IF c = d.customer THEN EmptyClasses
                             ELSE flows.map[c]]
             p == PriorityOf(d.gpt_summary)
         IN  IF p = 0 THEN [keys |-> keys1, map |-> map1]
             ELSE [keys |-> keys1,
                   map |-> [map1 EXCEPT ![d.customer][p] =
                                Append(@, d.gpt_summary)]]

RECURSIVE GroupFrom(_, _, _, _)
GroupFrom(data, name, i, flows) ==
    IF i > Len(data) THEN flows
    ELSE GroupFrom(data, name, i + 1,
                   IF CarriesComponent(data[i], name)
                   THEN GroupStep(flows, data[i]) ELSE flows)

\* customer_flows for the data process_production_issues returned.
GroupIssues(data, name) == GroupFrom(data, name, 1, EmptyFlows)

(***************************************************************************)
(* get_component_analysis and get_available_components: the retry loops.   *)
(***************************************************************************)
\* Lines 311 and 332: whether a failed attempt is followed by a sleep and
\* another turn of the loop (otherwise the exception is re-raised).
ShouldRetryOffByOne(n) == n < max_retries

ShouldRetry(n) == n < max_retries - 1

\* Lines 312 and 333: wait_time.
BackoffDelay(n) == (n + 1) * 2

\* Where the for loop goes after the turn numbered n: to its next turn, or
\* off its end, where the function returns None.
AfterTurn(n) == IF n + 1 < max_retries THEN "listing" ELSE "returned_none"

\* Placeholder of the answer to a task that has not called the LLM.
NoLLM == [ok |-> FALSE, text |-> "", glyph |-> 0]

ComponentArgs == {"Maps", "maps"}

\* What get_available_components may return: the names of the tracker's
\* components, in the order of its projects.
Directories == {<<"Maps", "Jobs">>, <<"Jobs">>}

\* Lines 78-83 without the lookup.
UnresolvedName(name, dir) == name

\* Lines 78-83: the first name of the directory equal to the argument up to
\* case, else the argument itself.
ResolveComponent(name, dir) ==
    IF \E i \in 1..Len(dir) : Lower(dir[i]) = Lower(name)
    THEN dir[CHOOSE i \in 1..Len(dir) :
                 /\ Lower(dir[i]) = Lower(name)
                 /\ \A j \in 1..(i - 1) : Lower(dir[j]) # Lower(name)]
    ELSE name

NoTasks == [i \in 1..MaxIssues |-> "none"]

ATerminal == {"returned", "raised", "returned_none"}

\* Lines 93-98 and 259-260: the query found nothing ("total_issues > 0"
\* fails, "not issues_data" holds).
NeverEmpty(found) == FALSE

NoIssues(found) == Len(found) = 0

InitCall ==
    /\ a_pc = "idle"
    /\ component_name \in ComponentArgs
    /\ issues \in IssueLists
    /\ attempt = 0
    /\ list_attempt = 0
    /\ task = NoTasks
    /\ results = [i \in 1..MaxIssues |-> NoResult]
    /\ llm_out = [i \in 1..MaxIssues |-> NoLLM]
    /\ completion = <<>>
    /\ llm_calls = [i \in 1..MaxIssues |-> 0]
    /\ sleeps = <<>>
    /\ list_sleeps = <<>>
    /\ failures = <<>>
    /\ outcome = EmptyFlows
    /\ all_components = <<>>
    /\ jql = ""

\* The caller enters get_component_analysis: the first turn of the loop,
\* process_production_issues, get_available_components.
Call ==
    /\ a_pc = "idle"
    /\ a_pc' = "listing"
    /\ UNCHANGED outsideAnalysis
    /\ UNCHANGED <<all_components, jql>>
    /\ UNCHANGED <<component_name, issues, attempt, list_attempt, task,
                   results, llm_out, completion, llm_calls, sleeps,
                   list_sleeps, failures, outcome>>

\* get_available_components: one turn of its loop succeeds and returns
\* dir; then process_production_issues resolves the name and builds the
\* query.
ListComponentsOk(dir) ==
    /\ a_pc = "listing"
    /\ a_pc' = "searching"
    /\ list_attempt' = 0
    /\ list_sleeps' = <<>>
    /\ all_components' = dir
    /\ jql' = ResolveComponent(component_name, dir)
    /\ UNCHANGED outsideAnalysis
    /\ UNCHANGED <<component_name, issues, attempt, task, results, llm_out,
                   completion, llm_calls, sleeps, failures, outcome>>

\* get_available_components: one turn of its loop fails; it sleeps and
\* turns again, or re-raises, which fails the attempt of the caller.
ListComponentsFail ==
    /\ a_pc = "listing"
    /\ IF ShouldRetry(list_attempt)
       THEN IF AfterTurn(list_attempt) = "listing"
            THEN /\ list_sleeps' =
                       Append(list_sleeps, BackoffDelay(list_attempt))
                 /\ list_attempt' = list_attempt + 1
                 /\ a_pc' = "listing"
                 /\ UNCHANGED failures
            ELSE \* off the end of the loop: None is returned, and the
                 \* generator over it in process_production_issues raises
                 /\ list_sleeps' = <<>>
                 /\ list_attempt' = 0
                 /\ a_pc' = "failed"
                 /\ failures' = Append(failures, "no_components")
       ELSE /\ list_attempt' = 0
            /\ list_sleeps' = <<>>
            /\ a_pc' = "failed"
            /\ failures' = Append(failures, "tracker")
    /\ UNCHANGED outsideAnalysis
    /\ UNCHANGED <<all_components, jql>>
    /\ UNCHANGED <<component_name, issues, attempt, task, results, llm_out,
                   completion, llm_calls, sleeps, outcome>>

\* jira.search_issues answers: no issue ends the call with {} (lines 94-98
\* and 259-260); otherwise one summarize_issue task per issue is submitted.
SearchOk ==
    /\ a_pc = "searching"
    /\ IF NoIssues(issues)
       THEN /\ a_pc' = "returned"
            /\ outcome' = EmptyFlows
            /\ UNCHANGED <<task, results, llm_out, completion>>
       ELSE /\ a_pc' = "summarizing"
            /\ task' = [i \in 1..MaxIssues |->
                          IF i <= Len(issues) THEN "pending" ELSE "none"]
            /\ results' = [i \in 1..MaxIssues |-> NoResult]
            /\ llm_out' = [i \in 1..MaxIssues |-> NoLLM]
            /\ completion' = <<>>
            /\ UNCHANGED outcome
    /\ UNCHANGED outsideAnalysis
    /\ UNCHANGED <<all_components, jql>>
    /\ UNCHANGED <<component_name, issues, attempt, list_attempt, llm_calls,
                   sleeps, list_sleeps, failures>>

\* jira.search_issues raises: process_production_issues re-raises.
SearchFail ==
    /\ a_pc = "searching"
    /\ a_pc' = "failed"
    /\ failures' = Append(failures, "tracker")
    /\ UNCHANGED outsideAnalysis
    /\ UNCHANGED <<all_components, jql>>
    /\ UNCHANGED <<component_name, issues, attempt, list_attempt, task,
                   results, llm_out, completion, llm_calls, sleeps,
                   list_sleeps, outcome>>

\* One task of the executor runs summarize_issue to its end: the LLM is
\* called and answers llm.
Summarize(i, llm) ==
    /\ a_pc = "summarizing"
    /\ task[i] = "pending"
    /\ LET r == summarize_issue(i, issues[i], llm)
       IN  /\ results' = [results EXCEPT ![i] = r]
           /\ task' = [task EXCEPT ![i] = IF r.raised THEN "raised" ELSE "done"]
    /\ llm_out' = [llm_out EXCEPT ![i] = llm]
    /\ llm_calls' = [llm_calls EXCEPT ![i] = @ + 1]
    /\ completion' = Append(completion, i)
    /\ UNCHANGED outsideAnalysis
    /\ UNCHANGED <<all_components, jql>>
    /\ UNCHANGED <<a_pc, component_name, issues, attempt, list_attempt,
                   sleeps, list_sleeps, failures, outcome>>

\* list(executor.map(...)) and the end of the with block: every task has
\* ended.  An exception of a task leaves process_production_issues;
\* otherwise the data is grouped and returned.
Join ==
    /\ a_pc = "summarizing"
    /\ \A i \in 1..Len(issues) : task[i] # "pending"
    /\ IF \E i \in 1..Len(issues) : task[i] = "raised"
       THEN /\ a_pc' = "failed"
            /\ failures' = Append(failures, "summarize")
            /\ task' = NoTasks
            /\ results' = [i \in 1..MaxIssues |-> NoResult]
            /\ llm_out' = [i \in 1..MaxIssues |-> NoLLM]
            /\ completion' = <<>>
            /\ UNCHANGED outcome
       ELSE /\ a_pc' = "returned"
            /\ outcome' = GroupIssues(CollectResults(results, completion),
                                      component_name)
            /\ UNCHANGED <<failures, task, results, llm_out, completion>>
    /\ UNCHANGED outsideAnalysis
    /\ UNCHANGED <<all_components, jql>>
    /\ UNCHANGED <<component_name, issues, attempt, list_attempt, llm_calls,
                   sleeps, list_sleeps>>

\* The except clause of get_component_analysis (lines 310-315).
Retry ==
    /\ a_pc = "failed"
    /\ IF ShouldRetry(attempt)
       THEN /\ sleeps' = Append(sleeps, BackoffDelay(attempt))
            /\ attempt' = attempt + 1
            /\ a_pc' = AfterTurn(attempt)
       ELSE /\ a_pc' = "raised"
            /\ UNCHANGED <<sleeps, attempt>>
    /\ UNCHANGED outsideAnalysis
    /\ UNCHANGED <<all_components, jql>>
    /\ UNCHANGED <<component_name, issues, list_attempt, task, results,
                   llm_out, completion, llm_calls, list_sleeps, failures, outcome>>

NextCall ==
    \/ Call
    \/ \E dir \in Directories : ListComponentsOk(dir)
    \/ ListComponentsFail
    \/ SearchOk
    \/ SearchFail
    \/ \E i \in 1..MaxIssues, llm \in LLMOutcomes : Summarize(i, llm)
    \/ Join
    \/ Retry

(***************************************************************************)
(* format_slack_message.  A block is kept by its type and by what it       *)
(* shows.                                                                  *)
(***************************************************************************)
Block(type, what, customer, key, index, total) ==
    [type |-> type, what |-> what, customer |-> customer, key |-> key,
     index |-> index, total |-> total]

\* The header of create_message_batch (lines 340-349) and the completion
\* marker (lines 351-359).
PartHeader(batch_number, total_batches) ==
    Block("header", "part", "", 0, batch_number, total_batches)

CompletionMarker == Block("section", "complete", "", 0, 0, 0)

\* Lines 367-376
CustomerHeader(customer) == Block("header", "customer", customer, 0, 0, 0)

\* Lines 384-392 and 405: what follows the link line of a summary, stripped,
\* is not empty.  The summary of the except branch ends after the link.
HasDetails(item) == item.text # ""

\* Lines 394-424: the blocks of one summary.
ItemBlocks(customer, item) ==
    <<Block("section", "title_link", customer, item.key, 0, 0)>>
    \o (IF HasDetails(item)
        THEN <<Block("section", "details", customer, item.key, 0, 0)>>
        ELSE <<>>)
    \o <<Block("divider", "", customer, item.key, 0, 0)>>

RECURSIVE ItemsBlocks(_, _, _)
ItemsBlocks(customer, items, i) ==
    IF i > Len(items) THEN <<>>
    ELSE ItemBlocks(customer, items[i]) \o ItemsBlocks(customer, items, i + 1)

\* Lines 366-426: the blocks of one customer.
CustomerBlocks(customer, priorities) ==
    <<CustomerHeader(customer)>>
    \o ItemsBlocks(customer, priorities[1], 1)
    \o ItemsBlocks(customer, priorities[2], 1)
    \o ItemsBlocks(customer, priorities[3], 1)

RECURSIVE AllBlocks(_, _)
AllBlocks(analysis, i) ==
    IF i > Len(analysis.keys) THEN <<>>
    ELSE CustomerBlocks(analysis.keys[i], analysis.map[analysis.keys[i]])
         \o AllBlocks(analysis, i + 1)

\* The runs of size blocks without the shorter run at the end.
FullChunksOnly(blocks, size) ==
    [b \in 1..(Len(blocks) \div size) |->
        SubSeq(blocks, (b - 1) * size + 1, b * size)]

\* Lines 430-433: all_blocks[i : i + size] for i in range(0, len, size)
Chunks(blocks, size) ==
    [b \in 1..((Len(blocks) + size - 1) \div size) |->
        SubSeq(blocks, (b - 1) * size + 1,
               IF b * size < Len(blocks) THEN b * size ELSE Len(blocks))]

\* Lines 339-360
MarkEveryBatch(blocks, batch_number, total_batches) ==
    <<PartHeader(batch_number, total_batches), CompletionMarker>> \o blocks

create_message_batch(blocks, batch_number, total_batches) ==
    <<PartHeader(batch_number, total_batches)>>
    \o (IF batch_number = total_batches THEN <<CompletionMarker>> ELSE <<>>)
    \o blocks

\* Lines 435-438
TagBatches(batches) ==
    [i \in 1..Len(batches) |->
        create_message_batch(batches[i], i, Len(batches))]

\* Lines 362-438; the empty dict is falsy.
format_slack_message(analysis) ==
    IF analysis.keys = <<>> THEN <<>>
    ELSE TagBatches(Chunks(AllBlocks(analysis, 1), batch_size))

(***************************************************************************)
(* Inputs of format_slack_message: mappings of up to two customers whose   *)
(* buckets hold summaries with or without details.                         *)
(***************************************************************************)
BucketSizes == {0, 1, 2, MaxPerBucket}

SummaryOf(k, j, detailed) ==
    [key |-> j, prio |-> k, title |-> 0,
     text |-> IF detailed THEN "Impact: a Fix: b Test: c" ELSE "", glyph |-> 0]

Buckets(sizes, detailed) ==
    [k \in 1..3 |-> [j \in 1..sizes[k] |-> SummaryOf(k, j, detailed)]]

BucketChoices ==
    {Buckets(sizes, detailed) :
        sizes \in [1..3 -> BucketSizes], detailed \in BOOLEAN}

AnalysisInputs ==
    {EmptyFlows}
    \cup {[keys |-> <<"Acme">>, map |-> [c \in {"Acme"} |-> e]] :
            e \in BucketChoices}
    \cup {[keys |-> <<"Acme", "Bolt">>,
           map |-> [c \in {"Acme", "Bolt"} |->
                      IF c = "Acme" THEN e1 ELSE e2]] :
            e1 \in BucketChoices, e2 \in BucketChoices}

InitFormat ==
    /\ f_pc = "ready"
    /\ f_arg \in AnalysisInputs
    /\ f_val = <<>>

\* The caller applies format_slack_message to the mapping.
Format ==
    /\ f_pc = "ready"
    /\ f_pc' = "done"
    /\ f_val' = format_slack_message(f_arg)
    /\ UNCHANGED f_arg
    /\ UNCHANGED outsideFunction

(***************************************************************************)
(* Properties of get_component_analysis.                                   *)
(***************************************************************************)
\* Whether the summary of the issue at position key is in the list of
\* customer c and class k, and how often.
Occurrences(flows, c, k, key) ==
    IF c \in DOMAIN flows.map
    THEN Cardinality({j \in 1..Len(flows.map[c][k]) :
                        flows.map[c][k][j].key = key})
    ELSE 0

RECURSIVE SumOver(_, _)
SumOver(f, S) ==
    IF S = {} THEN 0
    ELSE LET x == CHOOSE y \in S : TRUE IN f[x] + SumOver(f, S \ {x})

\* How often the summary of the issue at position key is in the mapping.
TotalOccurrences(flows, key) ==
    SumOver([ck \in (DOMAIN flows.map) \X (1..3) |->
                Occurrences(flows, ck[1], ck[2], key)],
            (DOMAIN flows.map) \X (1..3))

\* C6: get_component_analysis makes at most max_retries attempts, returns
\* the result of the first attempt that does not raise, has slept 2*k
\* seconds after the k-th failed attempt and before the next one, re-raises
\* the failure of the third attempt without another sleep, and never leaves
\* by the end of its loop (returning None).
C6_RetryLoop ==
    /\ attempt <= max_retries - 1
    /\ sleeps = [k \in 1..attempt |-> 2 * k]
    /\ a_pc = "returned" => Len(failures) = attempt
    /\ a_pc = "raised" => /\ Len(failures) = max_retries
                          /\ attempt = max_retries - 1
                          /\ Len(sleeps) = max_retries - 1
    /\ a_pc # "returned_none"

\* Three attempts failed: two sleeps, of 2 and 4 seconds, and the re-raise.
C6_Witness == a_pc = "raised" /\ sleeps = <<2, 4>> /\ Len(failures) = 3

\* C7: within one call the LLM is asked at most once for each issue, and
\* every failed attempt failed in the tracker query, never in or after the
\* summarization.
C7_RetryOnlyTrackerQuery ==
    /\ \A i \in 1..MaxIssues : llm_calls[i] <= 1
    /\ \A k \in 1..Len(failures) : failures[k] = "tracker"

\* C8: an issue whose LLM call failed, which carries the component, has a
\* customer and a priority of Class k, is in the result under that customer
\* and Class k, with a summary of title and link only.
C8_FailedLLMKept ==
    a_pc = "returned" =>
        \A i \in 1..Len(issues) :
            ( /\ ~llm_out[i].ok
              /\ CarriesComponent(results[i], component_name)
              /\ ~NoCustomer(results[i].customer)
              /\ issues[i].priority \in 1..3 )
            => /\ Occurrences(outcome, results[i].customer,
                              issues[i].priority, i) = 1
               /\ results[i].gpt_summary.text = ""

\* The issues of the returned data that the grouping has to keep.
Kept(i) ==
    /\ CarriesComponent(results[i], component_name)
    /\ ~NoCustomer(results[i].customer)
    /\ Glyphs(results[i].gpt_summary) # {}

FirstMarker(s) == CHOOSE k \in Glyphs(s) : \A j \in Glyphs(s) : k <= j

InQueryOrder(list) ==
    \A a, b \in 1..Len(list) : a < b => list[a].key < list[b].key

\* C10: whatever the order in which the tasks ended, the summaries of every
\* list are in the order of the query result, and the mapping is the one a
\* sequential summarization in query order gives.
C10_QueryOrder ==
    a_pc = "returned" =>
        /\ \A c \in DOMAIN outcome.map : \A k \in 1..3 :
               InQueryOrder(outcome.map[c][k])
        /\ outcome =
             GroupIssues([i \in 1..Len(issues) |->
                            summarize_issue(i, issues[i], llm_out[i])],
                         component_name)

\* The second task ended before the first, and both are in one list.
C10_Witness ==
    /\ a_pc = "returned"
    /\ Len(completion) >= 2
    /\ completion[1] = 2
    /\ completion[2] = 1
    /\ \E c \in DOMAIN outcome.map : \E k \in 1..3 :
           /\ Occurrences(outcome, c, k, 1) = 1
           /\ Occurrences(outcome, c, k, 2) = 1

(***************************************************************************)
(* Properties of the empty result and of format_slack_message.             *)
(***************************************************************************)
\* C11: when the tracker query returns no issue, get_component_analysis
\* returns the empty mapping on that attempt: no summarization task (and so
\* no LLM call) is started, no sleep follows, and format_slack_message of
\* the result is the empty batch list.
C11_NoIssuesEmptyResult ==
    /\ a_pc = "summarizing" => issues # <<>>
    /\ (a_pc = "returned" /\ issues = <<>>) =>
          /\ outcome = EmptyFlows
          /\ \A i \in 1..MaxIssues : llm_calls[i] = 0
          /\ Len(sleeps) = Len(failures)
          /\ format_slack_message(outcome) = <<>>

\* The query of the second attempt returns no issue.
C11_Witness ==
    /\ a_pc = "returned"
    /\ issues = <<>>
    /\ attempt = 1

\* C12: every batch of format_slack_message holds at most 45 blocks, part
\* header and completion marker included, and a result of more than 45
\* formatted blocks gives at least 2 batches.
C12_BatchWithin45 ==
    f_pc = "done" =>
        /\ \A i \in 1..Len(f_val) : Len(f_val[i]) <= batch_size
        /\ Len(AllBlocks(f_arg, 1)) > batch_size => Len(f_val) >= 2

\* The number of blocks of a batch equal to blk.
CountOf(batch, blk) ==
    Cardinality({j \in 1..Len(batch) : batch[j] = blk})

\* C13: of the n >= 1 batches of format_slack_message the i-th carries the
\* tag (i, n), once, and the completion marker is in the n-th batch only,
\* once.
C13_TaggedAndMarkedLast ==
    f_pc = "done" =>
        \A i \in 1..Len(f_val) :
            /\ f_val[i][1] = PartHeader(i, Len(f_val))
            /\ Cardinality({j \in 1..Len(f_val[i]) :
                              f_val[i][j].what = "part"}) = 1
            /\ CountOf(f_val[i], CompletionMarker)
                 = (IF i = Len(f_val) THEN 1 ELSE 0)

\* A mapping formatted into three batches or more.
C13_Witness ==
    /\ f_pc = "done"
    /\ Len(f_val) >= 3

\* No customer/class bucket of the mapping holds a summary.
NoSummary(analysis) ==
    \A c \in DOMAIN analysis.map : \A k \in 1..3 : analysis.map[c][k] = <<>>

\* C14: format_slack_message returns zero batches for every result of
\* get_component_analysis in which no bucket holds a summary.
C14_NoSummaryNoBatch ==
    (a_pc = "returned" /\ NoSummary(outcome)) =>
        format_slack_message(outcome) = <<>>

(***************************************************************************)
(* bot.py.  Texts that the dispatcher takes apart (message texts, request  *)
(* ids, action ids, component names) are sequences of characters.          *)
(***************************************************************************)
LowerChar(c) ==
    CASE c = "M" -> "m"
      [] c = "J" -> "j"
      [] c = "Q" -> "q"
      [] c = "H" -> "h"
      [] c = "S" -> "s"
      [] c = "C" -> "c"
      [] OTHER -> c

\* str.lower()
LowerStr(s) == [i \in 1..Len(s) |-> LowerChar(s[i])]

\* s[a:b] with 1-based inclusive bounds
Slice(s, a, b) == [i \in 1..(b - a + 1) |-> s[a + i - 1]]

\* s.startswith(pre)
StartsWith(s, pre) ==
    /\ Len(pre) <= Len(s)
    /\ \A i \in 1..Len(pre) : s[i] = pre[i]

\* sub in s
Contains(s, sub) ==
    \E k \in 0..(Len(s) - Len(sub)) :
        \A i \in 1..Len(sub) : s[k + i] = sub[i]

\* str.strip()
RECURSIVE LStrip(_)
LStrip(s) ==
    IF s # <<>> /\ Head(s) = " " THEN LStrip(Tail(s)) ELSE s

RECURSIVE RStrip(_)
RStrip(s) ==
    IF s # <<>> /\ s[Len(s)] = " " THEN RStrip(Slice(s, 1, Len(s) - 1))
    ELSE s

Strip(s) == RStrip(LStrip(s))

\* str.split(): the maximal runs of characters other than whitespace
RECURSIVE SplitWords(_, _, _)
SplitWords(s, word, acc) ==
    IF s = <<>>
    THEN IF word = <<>> THEN acc ELSE Append(acc, word)
    ELSE IF Head(s) = " "
         THEN SplitWords(Tail(s), <<>>,
                         IF word = <<>> THEN acc ELSE Append(acc, word))
         ELSE SplitWords(Tail(s), Append(word, Head(s)), acc)

Words(s) == SplitWords(s, <<>>, <<>>)

\* s.split(">", 1)[-1]: what follows the first ">", or s when it has none
AfterFirst(s, c) ==
    LET hits == {i \in 1..Len(s) : s[i] = c}
    IN  IF hits = {} THEN s
        ELSE LET first == CHOOSE i \in hits : \A j \in hits : i <= j
             IN  Slice(s, first + 1, Len(s))

MentionMark == <<"<", "@">>

\* Code-point order of the characters the model uses (sorted() compares
\* strings by code point).
Alphabet ==
    <<" ", "(", ")", "1", "2", "3", "4", "5", "<", ">", "@", "B", "C", "D",
      "G", "H", "J", "M", "Q", "S", "T", "U", "_", "a", "b", "c", "d", "e",
      "g", "h", "i", "j", "l", "m", "n", "o", "p", "q", "r", "s", "t", "u",
      "v", "w", "x", "z">>

Ord(c) == CHOOSE i \in 1..Len(Alphabet) : Alphabet[i] = c

\* a < b for two strings
RECURSIVE StrLess(_, _)
StrLess(a, b) ==
    IF b = <<>> THEN FALSE
    ELSE IF a = <<>> THEN TRUE
    ELSE IF Head(a) = Head(b) THEN StrLess(Tail(a), Tail(b))
    ELSE Ord(Head(a)) < Ord(Head(b))

\* sorted(set of strings)
RECURSIVE Sorted(_)
Sorted(S) ==
    IF S = {} THEN <<>>
    ELSE LET least == CHOOSE x \in S : \A y \in S \ {x} : StrLess(x, y)
         IN  <<least>> \o Sorted(S \ {least})

\* Component names of the tracker's directory.
c_Maps == <<"M", "a", "p", "s">>
c_JobQ == <<"J", "o", "b", " ", "Q">>

c_JobScheduler ==
    <<"J", "o", "b", " ", "S", "c", "h", "e", "d", "u", "l", "e", "r">>
c_MapsCore == <<"M", "a", "p", "s", " ", "(", "C", "o", "r", "e", ")">>

\* What analyzer.get_available_components() returns when it succeeds.
Directory == {c_Maps, c_JobQ}

(***************************************************************************)
(* handle_strategy_request: the matcher (lines 403-454).                   *)
(***************************************************************************)
\* search_term of lines 403-405
SearchTerm(text) ==
    LET t == Strip(LowerStr(text))
    IN  IF Contains(t, MentionMark) THEN Strip(AfterFirst(t, ">")) ELSE t

\* The condition without "sw.startswith(word)".
MatchesWithoutQueryPrefix(comp, search_words) ==
    \E k \in 1..Len(search_words) :
        \/ Contains(LowerStr(comp), search_words[k])
        \/ Contains(search_words[k], LowerStr(comp))
        \/ \E w \in 1..Len(Words(LowerStr(comp))) :
               Contains(Words(LowerStr(comp))[w], search_words[k])

\* The condition of lines 443-451 for one component.
MatchesComponent(comp, search_words) ==
    LET comp_lower == LowerStr(comp)
        comp_words == Words(comp_lower)
    IN  \E k \in 1..Len(search_words) :
            LET sw == search_words[k]
            IN  \/ Contains(comp_lower, sw)
                \/ Contains(sw, comp_lower)
                \/ \E w \in 1..Len(comp_words) :
                       \/ StartsWith(comp_words[w], sw)
                       \/ StartsWith(sw, comp_words[w])
                \/ \E w \in 1..Len(comp_words) : Contains(comp_words[w], sw)

\* matching_components of line 454
MatchingComponents(text, cache) ==
    Sorted({comp \in cache :
              MatchesComponent(comp, Words(LowerStr(SearchTerm(text))))})

(***************************************************************************)
(* Inputs of the matcher: a directory and a message text.                  *)
(***************************************************************************)
ComponentNames == {c_Maps, c_JobQ, c_JobScheduler, c_MapsCore}

QueryChars == {"m", "a", "Q", "o", "b", " "}

q_sched == <<"s", "c", "h", "e", "d">>

Queries ==
    UNION {[1..n -> QueryChars] : n \in 0..MaxQueryLen} \cup {q_sched}

InitMatch ==
    /\ f_pc = "ready"
    /\ f_arg \in [text : Queries, cache : SUBSET ComponentNames]
    /\ f_val = <<>>

\* handle_strategy_request computes matching_components for the text against
\* the directory.
Match ==
    /\ f_pc = "ready"
    /\ f_pc' = "done"
    /\ f_val' = MatchingComponents(f_arg.text, f_arg.cache)
    /\ UNCHANGED f_arg
    /\ UNCHANGED outsideFunction

(***************************************************************************)
(* Action ids.                                                             *)
(***************************************************************************)
p_select == <<"s", "e", "l", "e", "c", "t", "_", "c", "o", "m", "p", "o",
              "n", "e", "n", "t", "_">>
p_view == <<"v", "i", "e", "w", "_">>
p_download == <<"d", "o", "w", "n", "l", "o", "a", "d", "_">>
p_download_bugs == p_download \o <<"b", "u", "g", "s", "_">>
w_impact == <<"i", "m", "p", "a", "c", "t">>
w_bugs == <<"b", "u", "g", "s">>
underscore == <<"_">>

\* The action ids the bot puts on its buttons (lines 488, 650, 706, 752,
\* 762).
SelectId(c) == p_select \o c
ViewId(view, c) == p_view \o view \o underscore \o c
DownloadId(c) == p_download \o c
DownloadBugsId(c) == p_download_bugs \o c

\* A request to handle_strategy_request: its text and user, the directory
\* cache it finds, and which of its calls raises.
q_example ==
    <<"t", "e", "s", "t", " ", "s", "t", "r", "a", "t", "e", "g", "y", " ",
      "f", "o", "r", " ", "J", "o", "b", " ", "S", "c", "h", "e", "d", "u",
      "l", "e", "r">>

StrategyTexts ==
    {q_example, <<"m", "a">>, <<"z", "z">>, <<"<", "@", "B", ">">>, <<" ">>,
     <<>>}

(***************************************************************************)
(* Collaborator calls.  A call is recorded by the API called and by what   *)
(* it carries.                                                             *)
(***************************************************************************)
CallOf(api, what) == [api |-> api, what |-> what, ids |-> <<>>]

\* A call whose blocks hold buttons with the action ids ids.
WithButtons(call, ids) == [call EXCEPT !.ids = ids]

\* The buttons of lines 483-491: one per matching component.
SelectButtons(names) == [i \in 1..Len(names) |-> SelectId(names[i])]

\* The calls that reach the issue tracker or the LLM.
TrackerOrLLM(call) ==
    call.api \in {"get_available_components", "get_component_analysis"}

NoUser == <<>>

\* chat_postEphemeral when a user is known, else chat_postMessage
\* (lines 460-469, 496-508, 512-519).
ToChannel(user, what) == CallOf("chat_postMessage", what)

ToRequester(user, what) ==
    IF user # NoUser THEN CallOf("chat_postEphemeral", what)
    ELSE CallOf("chat_postMessage", what)

\* Lines 459-508: the message that tells the requester what was found.
Outcome(user, matching_components) ==
    IF matching_components = <<>>
    THEN ToRequester(user, "not_found")
    ELSE WithButtons(ToRequester(user, "components"),
                     SelectButtons(matching_components))

\* The calls handle_strategy_request makes when none of them fails, for a
\* non-empty text.
StrategyPlan(text, user, cache) ==
    <<CallOf("chat_postMessage", "loading"),
      CallOf("chat_update", "analyzing")>>
    \o (IF cache = {}
        THEN <<CallOf("chat_update", "refreshing"),
               CallOf("get_available_components", "directory")>>
        ELSE <<>>)
    \o <<CallOf("chat_update", "finding"),
         CallOf("chat_delete", "loading"),
         Outcome(user, MatchingComponents(text, IF cache = {}
                                                THEN tracker_components
                                                ELSE cache))>>

\* A run of planned calls of which the f-th raises (f = 0: none does).
CallsUntil(plan, f) ==
    IF f = 0 \/ f > Len(plan) THEN plan ELSE Slice(plan, 1, f)

Failed(plan, f) == f \in 1..Len(plan)

\* Position of the directory refresh in a plan, 0 if it has none.
RefreshAt(plan) ==
    IF \E i \in 1..Len(plan) : plan[i].api = "get_available_components"
    THEN CHOOSE i \in 1..Len(plan) : plan[i].api = "get_available_components"
    ELSE 0

\* handle_strategy_request(text, channel, user) with the f-th call raising
\* and, if e2, the error message of the except clause raising as well.
\* Gives the calls made, the directory cache afterwards and whether an
\* exception leaves the function.
\* The run of a plan in which a refresh that raises has stored a part of
\* the names already.
RunStoringPartly(plan, at, user, cache, f, e2) ==
    [calls |-> IF Failed(plan, f)
               THEN CallsUntil(plan, f) \o <<ToRequester(user, "error")>>
               ELSE plan,
     cache |-> IF at # 0 /\ (~Failed(plan, f) \/ at < f)
               THEN tracker_components
               ELSE IF at # 0 /\ at = f THEN {c_Maps} ELSE cache,
     raised |-> Failed(plan, f) /\ e2]

\* The run of a plan of handle_strategy_request under the fault f, e2.  The
\* assignment of line 422 takes place when get_available_components
\* returned.
RunStrategy(plan, at, user, cache, f, e2) ==
    [calls |-> IF Failed(plan, f)
               THEN CallsUntil(plan, f) \o <<ToRequester(user, "error")>>
               ELSE plan,
     cache |-> IF at # 0 /\ (~Failed(plan, f) \/ at < f)
               THEN tracker_components ELSE cache,
     raised |-> Failed(plan, f) /\ e2]

RunPlan(plan, user, cache, f, e2) ==
    RunStrategy(plan, RefreshAt(plan), user, cache, f, e2)

handle_strategy_request(text, user, cache, f, e2) ==
    IF text = <<>>
    THEN [calls |-> <<>>, cache |-> cache, raised |-> FALSE]
    ELSE RunPlan(StrategyPlan(text, user, cache), user, cache, f, e2)

(***************************************************************************)
(* Webhook payloads.                                                       *)
(***************************************************************************)
\* str.split(sep, maxsplit); maxsplit = -1: no limit
RECURSIVE SplitFrom(_, _, _, _, _)
SplitFrom(s, sep, n, cur, acc) ==
    IF s = <<>> THEN Append(acc, cur)
    ELSE IF n # 0 /\ StartsWith(s, sep)
         THEN SplitFrom(Slice(s, Len(sep) + 1, Len(s)), sep, n - 1, <<>>,
                        Append(acc, cur))
         ELSE SplitFrom(Tail(s), sep, n, Append(cur, Head(s)), acc)

Split(s, sep, maxsplit) == SplitFrom(s, sep, maxsplit, <<>>, <<>>)

BasePayload ==
    [ctype |-> "json", body |-> "other_type", etype |-> "", channel_type |-> "",
     bot |-> FALSE, text |-> <<>>, channel |-> <<>>, user |-> NoUser,
     ts |-> <<>>, trigger_id |-> <<>>, action_ts |-> <<>>,
     has_actions |-> FALSE, action_id |-> <<>>]

Event(etype, channel_type, bot, text, channel, user, ts) ==
    [BasePayload EXCEPT !.body = "event_callback", !.etype = etype,
                        !.channel_type = channel_type, !.bot = bot,
                        !.text = text, !.channel = channel, !.user = user,
                        !.ts = ts]

Interaction(trigger_id, action_ts, has_actions, action_id) ==
    [BasePayload EXCEPT !.ctype = "form", !.body = "interaction",
                        !.trigger_id = trigger_id, !.action_ts = action_ts,
                        !.has_actions = has_actions,
                        !.action_id = action_id, !.channel = <<"C">>,
                        !.user = <<"U">>]

TriggerIds == {<<"T", "1">>, <<"T", "2">>}

ActionIds ==
    { SelectId(c_Maps), ViewId(w_impact, c_Maps), ViewId(w_bugs, c_Maps),
      DownloadId(c_Maps), DownloadBugsId(c_Maps), <<"z", "z">> }

JsonPayloads ==
    { [BasePayload EXCEPT !.body = "malformed"],
      [BasePayload EXCEPT !.body = "url_verification"],
      [BasePayload EXCEPT !.body = "not_object"],
      BasePayload,
      [BasePayload EXCEPT !.ctype = "other"],
      Event("app_home_opened", "", FALSE, <<>>, <<>>, <<"U">>, <<>>),
      Event("app_mention", "channel", FALSE,
            <<"<", "@", "B", ">", " ", "m", "a">>, <<"C">>, <<"U">>, <<"1">>),
      Event("message", "im", FALSE, <<"m", "a", "p", "s">>, <<"D">>, <<"U">>,
            <<"1">>),
      Event("message", "im", FALSE, <<"H", "i">>, <<"D">>, <<"U">>, <<"2">>),
      Event("message", "im", FALSE, <<" ">>, <<"D">>, <<"U">>, <<"3">>),
      Event("message", "im", TRUE, <<"m", "a", "p", "s">>, <<"D">>, <<"U">>,
            <<"4">>),
      Event("message", "group", FALSE, <<"m", "a", "p", "s">>, <<"G">>,
            <<"U">>, <<"5">>),
      Event("message", "im", FALSE, <<"<", "@", "B", ">">>, <<"D">>, <<"U">>,
            <<"6">>),
      Event("app_mention", "channel", FALSE, <<"<", "@", "B", ">">>, <<"C">>,
            <<"U">>, <<"7">>),
      Event("app_mention", "channel", TRUE,
            <<"<", "@", "B", ">", " ", "m", "a">>, <<"C">>, <<"U">>, <<"8">>) }

FormPayloads ==
    { Interaction(t, <<"1">>, TRUE, a) : t \in TriggerIds, a \in ActionIds }
    \cup { Interaction(<<"T", "1">>, <<"1">>, FALSE, <<>>),
           [BasePayload EXCEPT !.ctype = "form", !.body = "no_payload"] }

Payloads == JsonPayloads \cup FormPayloads

\* The dedup guards (lines 106 and 284): the key is in the set of keys
\* handled before.
NeverSeen(key, handled) == FALSE

SeenBefore(key, handled) == key \in handled

\* request_id of lines 101-103 and message_key of line 281
RequestId(p) == p.trigger_id \o underscore \o p.action_ts

MessageKey(p) == p.channel \o underscore \o p.user \o underscore \o p.ts

(***************************************************************************)
(* HTTP responses.                                                         *)
(***************************************************************************)
Response(status, body) == [status |-> status, body |-> body]

Clear200 == Response(200, "response_action_clear")
Empty200 == Response(200, "empty")
Challenge200 == Response(200, "challenge")
Error200 == Response(200, "error")
InvalidJson400 == Response(400, "invalid_json")
\* What Flask answers when the view function returns None or an object that
\* is no response (a SlackResponse).
NotAResponse500 == Response(500, "internal_server_error")

(***************************************************************************)
(* The handlers slack_events runs on the request thread.  Each is given    *)
(* the index f of the collaborator call that raises (0: none does) and e2, *)
(* whether the call of its except clause raises too, and yields the calls  *)
(* made, the state afterwards and whether an exception leaves it.          *)
(***************************************************************************)
FaultIndexes == 0..7

Greetings == {<<"h", "i">>, <<"h", "e", "l", "l", "o">>, <<"h", "e", "y">>}
HelpWords == {<<"h", "e", "l", "p">>, <<"?">>}

Handled(calls, msgs, cache, raised) ==
    [calls |-> calls, msgs |-> msgs, cache |-> cache, raised |-> raised]

\* A handler that forgets the keys when handle_strategy_request raised.
ForgetOnFailure(r, msgs) ==
    Handled(r.calls, IF r.raised THEN {} ELSE msgs, r.cache, r.raised)

\* What a handler leaves after its call r of handle_strategy_request.
AfterStrategy(r, msgs) == Handled(r.calls, msgs, r.cache, r.raised)

\* Lines 291-308 of handle_message_event: the message is new, its key is
\* in msgs1 and text is its stripped text.
NewMessage(p, text, msgs1, cache, f, e2) ==
    IF p.channel_type \notin {"im", "group"}
    THEN Handled(<<>>, msgs1, cache, FALSE)
    ELSE IF LowerStr(text) \in Greetings
    THEN Handled(<<CallOf("chat_postMessage", "greeting")>>, msgs1, cache,
                 f = 1)
    ELSE IF LowerStr(text) \in HelpWords
    THEN Handled(<<CallOf("chat_postMessage", "help")>>, msgs1, cache, f = 1)
    ELSE AfterStrategy(handle_strategy_request(text, p.user, cache, f, e2),
                       msgs1)

\* handle_message_event (lines 270-308)
handle_message_event(p, msgs, cache, f, e2) ==
    IF p.bot THEN Handled(<<>>, msgs, cache, FALSE)
    ELSE IF SeenBefore(MessageKey(p), msgs)
    THEN Handled(<<>>, msgs, cache, FALSE)
    ELSE NewMessage(p, Strip(p.text), msgs \cup {MessageKey(p)}, cache, f,
                    e2)

\* handle_mention (lines 377-388)
handle_mention(p, msgs, cache, f, e2) ==
    AfterStrategy(
        handle_strategy_request(IF Contains(p.text, MentionMark)
                                THEN Strip(AfterFirst(p.text, ">"))
                                ELSE p.text,
                                p.user, cache, f, e2),
        msgs)

\* handle_app_home_opened (lines 311-374): its try swallows every failure.
handle_app_home_opened(p, msgs, cache) ==
    Handled(<<CallOf("views_publish", "home")>>, msgs, cache, FALSE)

\* download_bugs and download_impact_areas (helpers/downloader.py): the
\* calls made when none fails.
DownloadPlan(what) ==
    <<CallOf("chat_postMessage", "loading"),
      CallOf("chat_update", "analyzing"),
      CallOf("get_component_analysis", what),
      CallOf("chat_update", "formatting"),
      CallOf("chat_update", "uploading"),
      CallOf("files_upload_v2", what),
      CallOf("chat_delete", "loading")>>

\* What the download function hands to Flask: the SlackResponse of the
\* upload, None after a failure inside its try, or an exception when the
\* first post (outside the try) or the error update of the except clause
\* raises.
RunDownload(plan, f, e2) ==
    IF ~Failed(plan, f)
    THEN [calls |-> plan, returns |-> "SlackResponse"]
    ELSE IF f = 1
    THEN [calls |-> CallsUntil(plan, f), returns |-> "exception"]
    ELSE [calls |-> CallsUntil(plan, f) \o <<CallOf("chat_update", "error")>>,
          returns |-> IF e2 THEN "exception" ELSE "None"]

Download(what, f, e2) == RunDownload(DownloadPlan(what), f, e2)

\* Flask's answer for what the view function returned.
FlaskResponse(returns) ==
    IF returns = "exception" THEN Error200 ELSE NotAResponse500

NoSpawn == [kind |-> "none", component |-> <<>>, view_type |-> <<>>]

Out(resp, calls, reqs, msgs, cache, spawn) ==
    [resp |-> resp, calls |-> calls, reqs |-> reqs, msgs |-> msgs,
     cache |-> cache, spawn |-> spawn]

\* The event_callback branch of slack_events (lines 83-95).
\* Lines 95 and 251-253: the answer after the event handler ran as r.
EventOut(r, reqs) ==
    Out(IF r.raised THEN Error200 ELSE Empty200, r.calls, reqs, r.msgs,
        r.cache, NoSpawn)

EventCallback(p, reqs, msgs, cache, f, e2) ==
    EventOut(IF p.etype = "app_home_opened"
             THEN handle_app_home_opened(p, msgs, cache)
             ELSE IF p.etype = "app_mention"
             THEN handle_mention(p, msgs, cache, f, e2)
             ELSE IF p.etype = "message" /\ p.channel_type = "im" /\ ~p.bot
             THEN handle_message_event(p, msgs, cache, f, e2)
             ELSE Handled(<<>>, msgs, cache, FALSE),
             reqs)

\* The branches on action_id (lines 112-249), for a request that passed
\* the guard; reqs holds its request id already.
\* Lines 156-235: the view_ branch once action_id is split into parts.
ViewBranch(parts, reqs, msgs, cache) ==
    IF Len(parts) # 3   \* ValueError of the unpacking
    THEN Out(Error200, <<>>, reqs, msgs, cache, NoSpawn)
    ELSE Out(Clear200, <<>>, reqs, msgs, cache,
             [kind |-> "view", component |-> parts[3],
              view_type |-> parts[2]])

\* Lines 238-247: the download_ branch returns what the download gave.
DownloadBranch(d, reqs, msgs, cache) ==
    Out(FlaskResponse(d.returns), d.calls, reqs, msgs, cache, NoSpawn)

ActionBranch(p, reqs, msgs, cache, f, e2) ==
    IF ~p.has_actions THEN Out(Clear200, <<>>, reqs, msgs, cache, NoSpawn)
    ELSE IF StartsWith(p.action_id, p_select)
    THEN Out(Clear200, <<>>, reqs, msgs, cache,
             [kind |-> "select",
              component |-> Split(p.action_id, p_select, -1)[2],
              view_type |-> <<>>])
    ELSE IF StartsWith(p.action_id, p_view)
    THEN ViewBranch(Split(p.action_id, underscore, 2), reqs, msgs, cache)
    ELSE IF StartsWith(p.action_id, p_download)
    THEN DownloadBranch(IF StartsWith(p.action_id, p_download_bugs)
                        THEN Download("bugs", f, e2)
                        ELSE Download("impact", f, e2),
                        reqs, msgs, cache)
    ELSE Out(Clear200, <<>>, reqs, msgs, cache, NoSpawn)

\* before_request and slack_events (lines 51-60 and 70-253): the response,
\* the calls the request thread made, the state it leaves and the thread
\* it started.
slack_events(p, reqs, msgs, cache, f, e2) ==
    IF p.ctype = "json" /\ p.body = "malformed"
    THEN Out(InvalidJson400, <<>>, reqs, msgs, cache, NoSpawn)
    ELSE IF p.ctype # "form"
    THEN IF p.ctype = "other" \/ p.body = "not_object"
         THEN Out(Error200, <<>>, reqs, msgs, cache, NoSpawn)
         ELSE IF p.body = "url_verification"
         THEN Out(Challenge200, <<>>, reqs, msgs, cache, NoSpawn)
         ELSE IF p.body = "event_callback"
         THEN EventCallback(p, reqs, msgs, cache, f, e2)
         ELSE Out(Empty200, <<>>, reqs, msgs, cache, NoSpawn)
    ELSE IF p.body = "no_payload"
    THEN Out(Error200, <<>>, reqs, msgs, cache, NoSpawn)
    ELSE IF SeenBefore(RequestId(p), reqs)
    THEN Out(Clear200, <<>>, reqs, msgs, cache, NoSpawn)
    ELSE ActionBranch(p, reqs \cup {RequestId(p)}, msgs, cache, f, e2)

(***************************************************************************)
(* Summaries as texts, the CSV exports of helpers/downloader.py and the    *)
(* impact view of create_view_blocks.  A text is a sequence of characters  *)
(* in which each of the labels *Impact:*, *Fix:* and *Test:* and the title *)
(* with its link count as one character; " " stands for any whitespace.    *)
(***************************************************************************)
l_impact == "*Impact:*"
l_fix == "*Fix:*"
l_test == "*Test:*"
quote == "\""
comma == ","
t_title == "title_link"

\* The clause texts the LLM may write.
ImpactTexts == {<<"x">>, <<"y", "y">>, <<"x", quote, "y">>}
FixTexts == {<<"f">>, <<"f", quote>>}
TestTexts == {<<"t">>}

\* Lines 124-147 of jira_client.py: the summary of an issue whose LLM text
\* holds the three clauses, the Impact clause alone, or (the LLM failed)
\* nothing but the title and the link.
SummaryText(s) ==
    <<t_title, " ">>
    \o (IF s.shape \in {"full", "impact_only"}
        THEN <<" ", l_impact, " ">> \o s.impact ELSE <<>>)
    \o (IF s.shape = "full"
        THEN <<" ", l_fix, " ">> \o s.fix \o <<" ", l_test, " ">> \o s.test
        ELSE <<>>)
    \o <<" ">>

Summaries ==
    [shape : {"full"}, impact : ImpactTexts, fix : FixTexts, test : TestTexts]
    \cup [shape : {"impact_only"}, impact : ImpactTexts, fix : {<<>>},
          test : {<<>>}]
    \cup [shape : {"title_only"}, impact : {<<>>}, fix : {<<>>},
          test : {<<>>}]

\* One summary of an analysis with the customer and the class it is filed
\* under; an analysis is given by its summaries in the order in which the
\* loops over customers, classes and flows visit them.
FlowEntries == [customer : {"Acme"}, priority : 1..3, summary : Summaries]

FlowLists == UNION {[1..n -> FlowEntries] : n \in 0..MaxFlows}

\* str(n) for a row number and the name of a class.
Decimal(n) ==
    CASE n = 0 -> "0" [] n = 1 -> "1" [] n = 2 -> "2" [] n = 3 -> "3"
      [] n = 4 -> "4" [] OTHER -> "5"

ClassName(k) ==
    CASE k = 1 -> "Class 1" [] k = 2 -> "Class 2" [] OTHER -> "Class 3"

\* str.replace('"', '""')
RECURSIVE DoubleQuotes(_)
DoubleQuotes(s) ==
    IF s = <<>> THEN <<>>
    ELSE (IF Head(s) = quote THEN <<quote, quote>> ELSE <<Head(s)>>)
         \o DoubleQuotes(Tail(s))

\* A field between double quotes.
Quoted(s) == <<quote>> \o s \o <<quote>>

\* sep.join(fields)
RECURSIVE JoinFields(_, _)
JoinFields(fields, sep) ==
    IF fields = <<>> THEN <<>>
    ELSE IF Len(fields) = 1 THEN fields[1]
    ELSE fields[1] \o <<sep>> \o JoinFields(Tail(fields), sep)

\* downloader.py lines 37-51: the impact, fix and test texts download_bugs
\* takes from a flow.
BugFields(flow) ==
    LET has_impact == Contains(flow, <<l_impact>>)
        impact_part == IF has_impact THEN Split(flow, <<l_impact>>, 1)[2]
                       ELSE <<>>
        has_fix == Contains(flow, <<l_fix>>)
        fix_part == IF has_fix THEN Split(flow, <<l_fix>>, 1)[2] ELSE <<>>
    IN  [impact |-> IF has_impact /\ Contains(impact_part, <<l_fix>>)
                    THEN Strip(Split(impact_part, <<l_fix>>, 0)[1])
                    ELSE <<>>,
         fix |-> IF has_impact /\ has_fix
                 THEN IF Contains(fix_part, <<l_test>>)
                      THEN Strip(Split(fix_part, <<l_test>>, 0)[1])
                      ELSE Strip(fix_part)
                 ELSE <<>>,
         test |-> IF has_impact /\ has_fix /\ Contains(fix_part, <<l_test>>)
                  THEN Strip(Split(flow, <<l_test>>, 1)[2])
                  ELSE <<>>]

\* downloader.py lines 52-56: the row of a flow.
BugRow(row_number, component, entry) ==
    LET fields == BugFields(SummaryText(entry.summary))
    IN  JoinFields(<<<<Decimal(row_number)>>,
                     Quoted(<<component>>),
                     Quoted(DoubleQuotes(<<entry.customer>>)),
                     Quoted(<<ClassName(entry.priority)>>),
                     Quoted(DoubleQuotes(fields.impact)),
                     Quoted(DoubleQuotes(fields.fix)),
                     Quoted(DoubleQuotes(fields.test))>>, comma)

\* downloader.py lines 33-57: the rows of download_bugs below the header.
BugRows(component, analysis) ==
    [i \in 1..Len(analysis) |-> BugRow(i, component, analysis[i])]

\* downloader.py lines 95-101: the impact download_impact_areas takes from
\* a flow that holds the Impact label.
ExportedImpactOf(flow) ==
    LET impact == Split(flow, <<l_impact>>, 1)[2]
        no_fix == IF Contains(impact, <<l_fix>>)
                  THEN Split(impact, <<l_fix>>, 0)[1] ELSE impact
        no_test == IF Contains(no_fix, <<l_test>>)
                   THEN Split(no_fix, <<l_test>>, 0)[1] ELSE no_fix
    IN  Strip(no_test)

\* s with x appended unless s holds it ("x not in s").
AppendNew(s, x) ==
    IF \E i \in 1..Len(s) : s[i] = x THEN s ELSE Append(s, x)

\* downloader.py lines 91-103: the list impacts.
RECURSIVE ExportedImpacts(_, _, _)
ExportedImpacts(analysis, i, impacts) ==
    IF i > Len(analysis) THEN impacts
    ELSE LET flow == SummaryText(analysis[i].summary)
             impact == ExportedImpactOf(flow)
         IN  ExportedImpacts(analysis, i + 1,
                 IF Contains(flow, <<l_impact>>) /\ impact # <<>>
                 THEN AppendNew(impacts, impact) ELSE impacts)

\* downloader.py lines 111-114: the rows of download_impact_areas.
ImpactRows(component, impacts) ==
    [i \in 1..Len(impacts) |->
        JoinFields(<<<<Decimal(i)>>, Quoted(<<component>>),
                     Quoted(DoubleQuotes(impacts[i]))>>, comma)]

\* bot.py lines 548-554: the impact the view takes from a flow that holds
\* the Impact label.
ViewImpactOf(flow) ==
    LET impact == Split(flow, <<l_impact>>, -1)[2]
        no_fix == IF Contains(impact, <<l_fix>>)
                  THEN Split(impact, <<l_fix>>, -1)[1] ELSE impact
        no_test == IF Contains(no_fix, <<l_test>>)
                   THEN Split(no_fix, <<l_test>>, -1)[1] ELSE no_fix
    IN  Strip(no_test)

\* bot.py lines 541-570: impacts_by_class.
RECURSIVE ImpactsByClass(_, _, _)
ImpactsByClass(analysis, i, by_class) ==
    IF i > Len(analysis) THEN by_class
    ELSE LET flow == SummaryText(analysis[i].summary)
             k == analysis[i].priority
         IN  ImpactsByClass(analysis, i + 1,
                 IF Contains(flow, <<l_impact>>)
                 THEN [by_class EXCEPT ![k] = AppendNew(@, ViewImpactOf(flow))]
                 ELSE by_class)

\* bot.py lines 602-603: the numbered lines of one class, "{i}. {impact}".
ImpactLines(impacts) ==
    [i \in 1..Len(impacts) |-> [number |-> i, impact |-> impacts[i]]]

\* bot.py lines 538-635: the lines of the impact view, class by class.
ImpactView(analysis) ==
    LET by_class == ImpactsByClass(analysis, 1, [k \in 1..3 |-> <<>>])
    IN  [k \in 1..3 |-> ImpactLines(by_class[k])]

\* A standard CSV reader on one row: the fields, with the quotes around a
\* field removed and a doubled quote inside it read as one.
RECURSIVE ReadCsv(_, _, _, _)
ReadCsv(s, cur, acc, in_quotes) ==
    IF s = <<>> THEN Append(acc, cur)
    ELSE IF in_quotes
    THEN IF Head(s) = quote
         THEN IF Len(s) >= 2 /\ s[2] = quote
              THEN ReadCsv(Tail(Tail(s)), Append(cur, quote), acc, TRUE)
              ELSE ReadCsv(Tail(s), cur, acc, FALSE)
         ELSE ReadCsv(Tail(s), Append(cur, Head(s)), acc, TRUE)
    ELSE IF Head(s) = comma
    THEN ReadCsv(Tail(s), <<>>, Append(acc, cur), FALSE)
    ELSE IF Head(s) = quote /\ cur = <<>>
    THEN ReadCsv(Tail(s), cur, acc, TRUE)
    ELSE ReadCsv(Tail(s), Append(cur, Head(s)), acc, FALSE)

CsvFields(row) == ReadCsv(row, <<>>, <<>>, FALSE)

InitExport ==
    /\ f_pc = "ready"
    /\ f_arg \in FlowLists
    /\ f_val = <<>>

\* download_bugs builds its rows for the analysis f_arg.
ExportBugs ==
    /\ f_pc = "ready"
    /\ f_pc' = "bugs_csv"
    /\ f_val' = BugRows("Maps", f_arg)
    /\ UNCHANGED f_arg
    /\ UNCHANGED outsideFunction

\* download_impact_areas builds its rows for the analysis f_arg.
ExportImpacts ==
    /\ f_pc = "ready"
    /\ f_pc' = "impact_csv"
    /\ f_val' = ImpactRows("Maps", ExportedImpacts(f_arg, 1, <<>>))
    /\ UNCHANGED f_arg
    /\ UNCHANGED outsideFunction

\* create_view_blocks builds the impact view of the analysis f_arg.
ViewImpacts ==
    /\ f_pc = "ready"
    /\ f_pc' = "impact_view"
    /\ f_val' = ImpactView(f_arg)
    /\ UNCHANGED f_arg
    /\ UNCHANGED outsideFunction

NextExport == ExportBugs \/ ExportImpacts \/ ViewImpacts

(***************************************************************************)
(* handle_strategy_request on its own.                                     *)
(***************************************************************************)
InitStrategy ==
    /\ f_pc = "ready"
    /\ f_arg \in [text : StrategyTexts, user : {NoUser, <<"U">>},
                  cache : SUBSET ComponentNames, f : FaultIndexes,
                  e2 : BOOLEAN]
    /\ f_val = <<>>

\* One call of handle_strategy_request.
Strategy ==
    /\ f_pc = "ready"
    /\ f_pc' = "done"
    /\ f_val' = handle_strategy_request(f_arg.text, f_arg.user, f_arg.cache,
                                        f_arg.f, f_arg.e2)
    /\ UNCHANGED f_arg
    /\ UNCHANGED outsideFunction

(***************************************************************************)
(* get_analysis_options_blocks and the decoding of action ids.             *)
(***************************************************************************)
\* The buttons of get_analysis_options_blocks with the bugs view left out.
ImpactButtonOnly(component) == <<ViewId(w_impact, component)>>

\* The buttons of get_analysis_options_blocks (lines 743-764).
OptionButtons(component) ==
    <<ViewId(w_impact, component), ViewId(w_bugs, component)>>

\* The post of lines 129-136.
OptionsPost(component) ==
    WithButtons(CallOf("response_url_post", "options"),
                OptionButtons(component))

\* The action id the bot puts on the button of a kind for a component.
ActionKinds ==
    {"select", "view_impact", "view_bugs", "download", "download_bugs"}

EncodeAction(kind, component) ==
    IF kind = "select" THEN SelectId(component)
    ELSE IF kind = "view_impact" THEN ViewId(w_impact, component)
    ELSE IF kind = "view_bugs" THEN ViewId(w_bugs, component)
    ELSE IF kind = "download" THEN DownloadId(component)
    ELSE DownloadBugsId(component)

\* Line 156 and create_view_blocks lines 538 and 677: the view the view_
\* branch renders for the parts of the action id; the unpacking raises
\* when there are not three parts.
DecodeView(parts) ==
    IF Len(parts) # 3
    THEN [kind |-> "error", component |-> <<>>]
    ELSE [kind |-> IF parts[2] = w_impact THEN "view_impact"
                   ELSE IF parts[2] = w_bugs THEN "view_bugs"
                   ELSE "view_other",
          component |-> parts[3]]

\* Lines 122-247: the branch slack_events takes for an action id and the
\* component it hands to that branch.
DecodeAction(action_id) ==
    IF StartsWith(action_id, p_select)
    THEN [kind |-> "select",
          component |-> Split(action_id, p_select, -1)[2]]
    ELSE IF StartsWith(action_id, p_view)
    THEN DecodeView(Split(action_id, underscore, 2))
    ELSE IF StartsWith(action_id, p_download_bugs)
    THEN [kind |-> "download_bugs",
          component |-> Split(action_id, p_download_bugs, -1)[2]]
    ELSE IF StartsWith(action_id, p_download)
    THEN [kind |-> "download",
          component |-> Split(action_id, underscore, 1)[2]]
    ELSE [kind |-> "none", component |-> <<>>]

\* Component names with underscores and with the keyword "bugs_" in front.
NameChars == {"a", "b", "_"}

c_bugs_a == <<"b", "u", "g", "s", "_", "a">>

ButtonNames ==
    UNION {[1..n -> NameChars] : n \in 1..MaxNameLen}
    \cup {c_Maps, c_JobQ, c_bugs_a}

InitClick ==
    /\ f_pc = "ready"
    /\ f_arg \in [kind : ActionKinds, component : ButtonNames]
    /\ f_val = <<>>

\* The button of f_arg is clicked and slack_events decodes its action id.
Click ==
    /\ f_pc = "ready"
    /\ f_pc' = "done"
    /\ f_val' = DecodeAction(EncodeAction(f_arg.kind, f_arg.component))
    /\ UNCHANGED f_arg
    /\ UNCHANGED outsideFunction

(***************************************************************************)
(* Background threads (the closures of slack_events).                      *)
(***************************************************************************)
NoThread ==
    [kind |-> "none", pc |-> "none", component |-> <<>>, view_type |-> <<>>,
     channel |-> <<>>, t |-> 0, analysis |-> "none", calls |-> <<>>]

\* What analyzer.get_component_analysis gives a caller: it raises, returns
\* the empty mapping, or returns a mapping with entries.
AnalysisResults == {"raise", "empty", "found"}

\* Lines 161-172 and 183-185: the loading replacement and the first
\* progress message (SlackChatter.emit_message posts to the channel).
ViewStartPlan ==
    <<CallOf("response_url_post", "loading"),
      CallOf("chat_postMessage", "progress")>>

\* Lines 175-218: the calls between the analysis and the end of the task.
\* For the bugs view create_view_blocks posts the batches itself and
\* returns no block, so the last replacement is the "No ... data" text.
ViewRenderPlan(view_type, analysis) ==
    IF view_type = w_bugs /\ analysis = "found"
    THEN <<CallOf("chat_postMessage", "progress"),
           CallOf("chat_postEphemeral", "batch"),
           CallOf("chat_postMessage", "progress"),
           CallOf("response_url_post", "no_data")>>
    ELSE <<CallOf("chat_postMessage", "progress"),
           CallOf("chat_postMessage", "progress"),
           CallOf("response_url_post", "blocks")>>

\* Lines 148-152 and 231-235: Thread(...).start() returns at once, and the
\* handler returns its acknowledgment without joining the thread n.
ReturnsAfterThreadEnds(n) ==
    n = 0 \/ ~h_spawned \/ threads[n].pc \in {"done", "done_error", "crashed"}

ResponseReady(n) == TRUE

(***************************************************************************)
(* The dispatcher.                                                         *)
(***************************************************************************)
\* The dedup key a delivery carries: the request id of an interaction, the
\* message key of a direct message that reaches handle_message_event.
KeyOf(p) ==
    IF p.ctype = "form" /\ p.body = "interaction"
    THEN <<"request", RequestId(p)>>
    ELSE IF /\ p.ctype = "json" /\ p.body = "event_callback"
            /\ p.etype = "message" /\ p.channel_type = "im" /\ ~p.bot
    THEN <<"message", MessageKey(p)>>
    ELSE <<"none", <<>>>>

NoKey == <<"none", <<>>>>

DedupKeys == {KeyOf(p) : p \in Payloads} \ {NoKey}

\* The fault choices that make a difference for a payload: the handlers of
\* the other payloads call no collaborator that can raise.
FaultsOf(p) ==
    IF \/ p.ctype = "form" /\ StartsWith(p.action_id, p_download)
       \/ p.body = "event_callback" /\ p.etype \in {"app_mention", "message"}
    THEN {<<f, e2>> : f \in FaultIndexes, e2 \in BOOLEAN}
    ELSE {<<0, FALSE>>}

\* The payloads of the actions that start a background thread.
ThreadPayloads ==
    {p \in FormPayloads :
        StartsWith(p.action_id, p_select) \/ StartsWith(p.action_id, p_view)}

\* The states of the tracker's component list.
TrackerStates == {Directory, {}}

\* The calls hold a get_available_components that returned: another call
\* follows it that is not the error message of the except clause.
Refreshed(calls) ==
    \E i \in 1..(Len(calls) - 1) :
        /\ calls[i].api = "get_available_components"
        /\ calls[i + 1].what # "error"

\* The threads started so far.
Started(th) == {n \in 1..MaxThreads : th[n].kind # "none"}

InitBot ==
    /\ processed_requests = {}
    /\ processed_messages = {}
    /\ cached_components = {}
    /\ now = 0
    /\ deliveries = 0
    /\ h_pc = "idle"
    /\ h_req = BasePayload
    /\ h_resp = Empty200
    /\ h_calls = <<>>
    /\ h_spawned = FALSE
    /\ h_dup = FALSE
    /\ threads = [n \in 1..MaxThreads |-> NoThread]
    /\ seen = {}
    /\ started = [k \in DedupKeys |-> 0]
    /\ tracker_components = Directory
    /\ refreshed_at = 0
    /\ mentions = {}

\* The effects of one run of slack_events on the request p: out is what
\* the run gives, key the dedup key of p and n the number of the thread it
\* may start.
Deliver(p, out, key, n) ==
    /\ h_pc = "idle"
    /\ deliveries < MaxDeliveries
    /\ LET works == out.calls # <<>> \/ out.spawn.kind # "none"
       IN  /\ out.spawn.kind # "none" => n <= MaxThreads
           /\ processed_requests' = out.reqs
           /\ processed_messages' = out.msgs
           /\ cached_components' = out.cache
           /\ deliveries' = deliveries + 1
           /\ h_pc' = "responding"
           /\ h_req' = p
           /\ h_resp' = out.resp
           /\ h_calls' = out.calls
           /\ h_spawned' = (out.spawn.kind # "none")
           /\ h_dup' = (key \in seen)
           /\ threads' =
                IF out.spawn.kind = "none" THEN threads
                ELSE [threads EXCEPT ![n] =
                        [kind |-> out.spawn.kind, pc |-> "start",
                         component |-> out.spawn.component,
                         view_type |-> out.spawn.view_type,
                         channel |-> p.channel, t |-> now,
                         analysis |-> "none", calls |-> <<>>]]
           /\ seen' = IF key = NoKey THEN seen ELSE seen \cup {key}
           /\ started' = IF key # NoKey /\ works
                         THEN [started EXCEPT ![key] = @ + 1]
                         ELSE started
           /\ refreshed_at' = IF Refreshed(out.calls) THEN now
                               ELSE refreshed_at
           /\ mentions' = IF p.etype = "app_mention"
                           THEN mentions \cup {MessageKey(p)}
                           ELSE mentions
    /\ UNCHANGED <<outsideWebhook, now, tracker_components>>

\* A webhook request arrives and slack_events runs up to its return
\* statement, with the f-th collaborator call raising.
Dispatch(p, f, e2) ==
    Deliver(p,
            slack_events(p, processed_requests, processed_messages,
                         cached_components, f, e2),
            KeyOf(p), Cardinality(Started(threads)) + 1)

\* slack_events returns: the HTTP response goes out; the request thread is
\* free for the next request.
Return ==
    /\ h_pc = "responding"
    /\ ResponseReady(Cardinality(Started(threads)))
    /\ h_pc' = "idle"
    /\ h_req' = BasePayload
    /\ h_resp' = Empty200
    /\ h_calls' = <<>>
    /\ h_spawned' = FALSE
    /\ h_dup' = FALSE
    /\ UNCHANGED outsideWebhook
    /\ UNCHANGED <<tracker_components, refreshed_at, mentions>>
    /\ UNCHANGED <<processed_requests, processed_messages, cached_components,
                   now, deliveries, threads, seen, started>>

\* process_component_selection (lines 126-146): the options replace the
\* original message, or the post raises.
SelectPost(n, ok) ==
    /\ threads[n].kind = "select"
    /\ threads[n].pc = "start"
    /\ threads' = [threads EXCEPT
                     ![n].calls =
                         Append(@, OptionsPost(threads[n].component)),
                     ![n].pc = IF ok THEN "done" ELSE "failing"]
    /\ UNCHANGED outsideWebhook
    /\ UNCHANGED <<tracker_components, refreshed_at, mentions>>
    /\ UNCHANGED <<processed_requests, processed_messages, cached_components,
                   now, deliveries, h_pc, h_req, h_resp, h_calls, h_spawned,
                   h_dup, seen, started>>

\* process_view_selection, lines 161-172/185: up to the analysis.
ViewStart(n, f) ==
    /\ threads[n].kind = "view"
    /\ threads[n].pc = "start"
    /\ f \in 0..Len(ViewStartPlan)
    /\ threads' = [threads EXCEPT
                     ![n].calls = @ \o CallsUntil(ViewStartPlan, f),
                     ![n].pc = IF Failed(ViewStartPlan, f) THEN "failing"
                               ELSE "analyzing"]
    /\ UNCHANGED outsideWebhook
    /\ UNCHANGED <<tracker_components, refreshed_at, mentions>>
    /\ UNCHANGED <<processed_requests, processed_messages, cached_components,
                   now, deliveries, h_pc, h_req, h_resp, h_calls, h_spawned,
                   h_dup, seen, started>>

\* process_view_selection, lines 173/186: analyzer.get_component_analysis.
ViewAnalyze(n, res) ==
    /\ threads[n].kind = "view"
    /\ threads[n].pc = "analyzing"
    /\ threads' = [threads EXCEPT
                     ![n].calls = Append(@, CallOf("get_component_analysis",
                                                   "analysis")),
                     ![n].analysis = res,
                     ![n].pc = IF res = "raise" THEN "failing"
                               ELSE "rendering"]
    /\ UNCHANGED outsideWebhook
    /\ UNCHANGED <<tracker_components, refreshed_at, mentions>>
    /\ UNCHANGED <<processed_requests, processed_messages, cached_components,
                   now, deliveries, h_pc, h_req, h_resp, h_calls, h_spawned,
                   h_dup, seen, started>>

\* process_view_selection, lines 175-218: progress, blocks, last post.
ViewRender(n, f) ==
    /\ threads[n].kind = "view"
    /\ threads[n].pc = "rendering"
    /\ LET plan == ViewRenderPlan(threads[n].view_type, threads[n].analysis)
       IN  /\ f \in 0..Len(plan)
           /\ threads' = [threads EXCEPT
                            ![n].calls = @ \o CallsUntil(plan, f),
                            ![n].pc = IF Failed(plan, f) THEN "failing"
                                      ELSE "done"]
    /\ UNCHANGED outsideWebhook
    /\ UNCHANGED <<tracker_components, refreshed_at, mentions>>
    /\ UNCHANGED <<processed_requests, processed_messages, cached_components,
                   now, deliveries, h_pc, h_req, h_resp, h_calls, h_spawned,
                   h_dup, seen, started>>

\* The except clause of either closure (lines 137-146, 220-229): the error
\* text replaces the original message, or that post raises and the thread
\* dies.
ThreadError(n, ok) ==
    /\ threads[n].pc = "failing"
    /\ threads' = [threads EXCEPT
                     ![n].calls = Append(@, CallOf("response_url_post",
                                                   "error")),
                     ![n].pc = IF ok THEN "done_error" ELSE "crashed"]
    /\ UNCHANGED outsideWebhook
    /\ UNCHANGED <<tracker_components, refreshed_at, mentions>>
    /\ UNCHANGED <<processed_requests, processed_messages, cached_components,
                   now, deliveries, h_pc, h_req, h_resp, h_calls, h_spawned,
                   h_dup, seen, started>>

\* A second passes.
Tick ==
    /\ now < MaxTime
    /\ now' = now + 1
    /\ UNCHANGED outsideWebhook
    /\ UNCHANGED <<tracker_components, refreshed_at, mentions>>
    /\ UNCHANGED <<processed_requests, processed_messages, cached_components,
                   deliveries, h_pc, h_req, h_resp, h_calls, h_spawned,
                   h_dup, threads, seen, started>>

\* The components of the tracker's projects are edited.
Reconfigure(dir) ==
    /\ tracker_components # dir
    /\ tracker_components' = dir
    /\ UNCHANGED outsideWebhook
    /\ UNCHANGED <<processed_requests, processed_messages, cached_components,
                   now, deliveries, h_pc, h_req, h_resp, h_calls, h_spawned,
                   h_dup, threads, seen, started, refreshed_at, mentions>>

\* More than CACHE_DURATION seconds pass.
Expire ==
    /\ now <= MaxTime
    /\ now' = now + CACHE_DURATION + 1
    /\ UNCHANGED outsideWebhook
    /\ UNCHANGED <<processed_requests, processed_messages, cached_components,
                   deliveries, h_pc, h_req, h_resp, h_calls, h_spawned,
                   h_dup, threads, seen, started, tracker_components,
                   refreshed_at, mentions>>

\* The request thread, over every payload and fault.
NextHandler ==
    \/ \E p \in Payloads : \E ff \in FaultsOf(p) : Dispatch(p, ff[1], ff[2])
    \/ Return
    \/ \E dir \in TrackerStates : Reconfigure(dir)
    \/ Expire

\* The request thread and the background threads, over the payloads that
\* start a thread.
NextThreads ==
    \/ \E p \in ThreadPayloads : Dispatch(p, 0, FALSE)
    \/ Return
    \/ \E n \in 1..MaxThreads, ok \in BOOLEAN : SelectPost(n, ok)
    \/ \E n \in 1..MaxThreads, f \in FaultIndexes : ViewStart(n, f)
    \/ \E n \in 1..MaxThreads, res \in AnalysisResults : ViewAnalyze(n, res)
    \/ \E n \in 1..MaxThreads, f \in FaultIndexes : ViewRender(n, f)
    \/ \E n \in 1..MaxThreads, ok \in BOOLEAN : ThreadError(n, ok)
    \/ Tick

(***************************************************************************)
(* The dedup guards under the threaded server (app.run serves each request *)
(* on a thread of its own): the membership test and the insertion are two  *)
(* statements, and another thread may run between them.                    *)
(***************************************************************************)
\* The deliveries that carry a dedup key: two interactions and two direct
\* messages.
KeyedPayloads ==
    { Interaction(t, <<"1">>, TRUE, SelectId(c_Maps)) : t \in TriggerIds }
    \cup { Event("message", "im", FALSE, <<"m", "a", "p", "s">>, <<"D">>,
                 <<"U">>, <<"1">>),
           Event("message", "im", FALSE, <<"H", "i">>, <<"D">>, <<"U">>,
                 <<"2">>) }

\* The processed set a delivery is checked against.
ProcessedFor(p) ==
    IF p.ctype = "form" THEN processed_requests ELSE processed_messages

InitGuards ==
    /\ r_pc = [h \in 1..MaxHandlers |-> "idle"]
    /\ r_req = [h \in 1..MaxHandlers |-> BasePayload]

\* What no step of a guard changes.
besideGuards ==
    <<cached_components, now, deliveries, h_pc, h_req, h_resp, h_calls,
      h_spawned, h_dup, threads, seen, started, tracker_components,
      refreshed_at, mentions>>

\* A delivery arrives at a free request thread, which runs up to the guard.
Arrive(h, p) ==
    /\ r_pc[h] = "idle"
    /\ r_pc' = [r_pc EXCEPT ![h] = "testing"]
    /\ r_req' = [r_req EXCEPT ![h] = p]
    /\ UNCHANGED <<processed_requests, processed_messages>>
    /\ UNCHANGED <<outsideGuards, besideGuards>>

\* Lines 106-107 and 284-286: the membership test; a key that is in the
\* set ends the request.
Test(h) ==
    /\ r_pc[h] = "testing"
    /\ r_pc' = [r_pc EXCEPT ![h] =
                  IF SeenBefore(KeyOf(r_req[h])[2], ProcessedFor(r_req[h]))
                  THEN "skipped" ELSE "passed"]
    /\ UNCHANGED <<r_req, processed_requests, processed_messages>>
    /\ UNCHANGED <<outsideGuards, besideGuards>>

\* Lines 110 and 289: the key is added to the set, and the request goes on
\* to its action sequence.
Insert(h) ==
    /\ r_pc[h] = "passed"
    /\ r_pc' = [r_pc EXCEPT ![h] = "acting"]
    /\ IF r_req[h].ctype = "form"
       THEN /\ processed_requests' =
                  processed_requests \cup {KeyOf(r_req[h])[2]}
            /\ UNCHANGED processed_messages
       ELSE /\ processed_messages' =
                  processed_messages \cup {KeyOf(r_req[h])[2]}
            /\ UNCHANGED processed_requests
    /\ UNCHANGED r_req
    /\ UNCHANGED <<outsideGuards, besideGuards>>

\* The request ends and its thread is free again.
Finish(h) ==
    /\ r_pc[h] \in {"skipped", "acting"}
    /\ r_pc' = [r_pc EXCEPT ![h] = "idle"]
    /\ r_req' = [r_req EXCEPT ![h] = BasePayload]
    /\ UNCHANGED <<processed_requests, processed_messages>>
    /\ UNCHANGED <<outsideGuards, besideGuards>>

NextGuards ==
    \/ \E h \in 1..MaxHandlers, p \in KeyedPayloads : Arrive(h, p)
    \/ \E h \in 1..MaxHandlers : Test(h)
    \/ \E h \in 1..MaxHandlers : Insert(h)
    \/ \E h \in 1..MaxHandlers : Finish(h)

(***************************************************************************)
(* Properties of the webhook endpoint.                                     *)
(***************************************************************************)
\* The delivery being answered is a later delivery of its dedup key.
Redelivery == h_pc = "responding" /\ h_dup

\* C1 as stated: for every request id and message key that has been
\* delivered, exactly one delivery carrying it started a side-effecting
\* action sequence (a background task, a download or a chat post).
C1_ExactlyOneStarts ==
    \A k \in seen : started[k] = 1

\* C1: for every request id and message key at most one delivery starts a
\* side-effecting action sequence, and every later delivery of the key is
\* answered with a success acknowledgment, starts no thread and makes no
\* chat, tracker or LLM call.
C1_AtMostOneStarts ==
    /\ \A k \in DedupKeys : started[k] <= 1
    /\ Redelivery =>
          /\ h_resp \in {Clear200, Empty200}
          /\ h_calls = <<>>
          /\ ~h_spawned

\* A key whose first delivery started work is delivered again.
C1_Witness ==
    /\ Redelivery
    /\ started[KeyOf(h_req)] = 1

\* A view thread has called get_component_analysis.
Ran(n) == threads[n].kind = "view" /\ threads[n].analysis # "none"

\* Two view selections for one (channel, component), less than the cooldown
\* apart.
InOneWindow(m, n) ==
    /\ m # n
    /\ threads[m].kind = "view" /\ threads[n].kind = "view"
    /\ threads[m].channel = threads[n].channel
    /\ threads[m].component = threads[n].component
    /\ threads[m].t - threads[n].t < RESPONSE_COOLDOWN
    /\ threads[n].t - threads[m].t < RESPONSE_COOLDOWN

\* C2: two view selections with distinct request ids for the same (channel,
\* component) arriving within the cooldown window produce one call of
\* get_component_analysis, not two.
C2_OneRunPerWindow ==
    \A m, n \in 1..MaxThreads : InOneWindow(m, n) => ~(Ran(m) /\ Ran(n))

\* C3: after a select_component_ or view_ action that passed the dedup guard
\* the handler can return at once, whatever the state of the thread it
\* started, and what it returns is {response_action: clear} with status 200.
C3_AckWithoutWaiting ==
    (h_pc = "responding" /\ h_spawned) =>
        /\ ENABLED Return
        /\ h_resp = Clear200

\* The handler has returned its acknowledgment and the analysis of the
\* thread it started is still to come.
C3_Witness ==
    /\ deliveries = 1
    /\ h_pc = "idle"
    /\ threads[1].kind = "view"
    /\ threads[1].pc = "analyzing"

\* C4: the thread that handles the webhook calls neither the issue tracker
\* nor the LLM before the HTTP response is returned.
C4_NoTrackerOnRequestThread ==
    \A i \in 1..Len(h_calls) : ~TrackerOrLLM(h_calls[i])

\* C5: every POST to /slack/events is answered with a 2xx status and a
\* well-formed response, for every payload shape and collaborator failure.
C5_Always2xx ==
    h_pc = "responding" =>
        /\ h_resp.status \in 200..299
        /\ h_resp.body # "internal_server_error"

(***************************************************************************)
(* Properties of the matcher and of the directory cache.                   *)
(***************************************************************************)
\* The matching condition for a candidate c and one query word sw.
Satisfies(c, sw) ==
    \/ Contains(LowerStr(c), sw)
    \/ Contains(sw, LowerStr(c))
    \/ \E w \in 1..Len(Words(LowerStr(c))) :
          \/ StartsWith(Words(LowerStr(c))[w], sw)
          \/ StartsWith(sw, Words(LowerStr(c))[w])
          \/ Contains(Words(LowerStr(c))[w], sw)

\* The candidates of a directory that match some word of the query.
Candidates(text, cache) ==
    {c \in cache :
        \E k \in 1..Len(Words(LowerStr(text))) :
            Satisfies(c, Words(LowerStr(text))[k])}

\* C15: the list handle_strategy_request offers holds exactly the
\* candidates that match some whitespace-delimited lowercase word of the
\* query, each once, in lexicographic order; the directory {"Job
\* Scheduler", "Maps (Core)"} with the query "sched" gives ["Job
\* Scheduler"].
C15_OffersTheMatches ==
    f_pc = "done" =>
        /\ {f_val[i] : i \in 1..Len(f_val)}
             = Candidates(f_arg.text, f_arg.cache)
        /\ Len(f_val) = Cardinality(Candidates(f_arg.text, f_arg.cache))
        /\ \A i, j \in 1..Len(f_val) : i < j => StrLess(f_val[i], f_val[j])
        /\ (f_arg.text = q_sched /\ f_arg.cache = {c_JobScheduler, c_MapsCore})
              => f_val = <<c_JobScheduler>>

\* The query "sched" has been resolved against the directory of the
\* example.
C15_Witness ==
    /\ f_pc = "done"
    /\ f_arg.text = q_sched
    /\ f_arg.cache = {c_JobScheduler, c_MapsCore}
    /\ f_val = <<c_JobScheduler>>

\* The request being answered is a mention or a direct message whose query
\* is empty after normalization.
EmptyQuery ==
    /\ h_pc = "responding"
    /\ h_req.body = "event_callback"
    /\ \/ h_req.etype = "app_mention"
       \/ h_req.etype = "message" /\ h_req.channel_type = "im" /\ ~h_req.bot
    /\ ~h_dup
    /\ SearchTerm(h_req.text) = <<>>

\* C16: a request whose query is empty after normalization (empty or
\* whitespace-only text, or nothing but a mention token) is offered no
\* component and causes no tracker call, whether the directory cache is
\* empty or populated.
C16_EmptyQueryNoTracker ==
    EmptyQuery =>
        \A i \in 1..Len(h_calls) :
            /\ ~TrackerOrLLM(h_calls[i])
            /\ h_calls[i].what # "components"

\* The directory of the running attempt holds the argument up to case.
InDirectory(name) ==
    \E i \in 1..Len(all_components) : Lower(all_components[i]) = Lower(name)

\* C17: for two component names that differ only in case and that the
\* directory holds up to case, get_component_analysis puts the same name,
\* the directory's, in the tracker query and keeps the same issues, so
\* that it returns the same result for the same tracker and LLM answers.
C17_CaseVariantsAgree ==
    \A other \in ComponentArgs :
        (/\ a_pc \in {"searching", "summarizing", "returned"}
         /\ Lower(other) = Lower(component_name)
         /\ InDirectory(component_name))
        => /\ jql = ResolveComponent(other, all_components)
           /\ \E i \in 1..Len(all_components) : jql = all_components[i]
           /\ a_pc = "returned" =>
                 outcome = GroupIssues(CollectResults(results, completion),
                                       other)

\* The call for "maps" has queried the tracker for "Maps" and returned a
\* result with an entry.
C17_Witness ==
    /\ a_pc = "returned"
    /\ component_name = "maps"
    /\ jql = "Maps"
    /\ outcome.keys # <<>>

\* The request being answered reached the matcher of
\* handle_strategy_request (the loading message is deleted right after it).
MatcherRan ==
    /\ h_pc = "responding"
    /\ h_req.body = "event_callback"
    /\ \E i \in 1..Len(h_calls) : h_calls[i] = CallOf("chat_delete", "loading")

\* The request thread called get_available_components.
RefreshAttempted ==
    \E i \in 1..Len(h_calls) : h_calls[i].api = "get_available_components"

\* The step is a request in which get_available_components raised.
RefreshFailed ==
    /\ h_pc' = "responding"
    /\ \E i \in 1..Len(h_calls') : h_calls'[i].api = "get_available_components"
    /\ ~Refreshed(h_calls')

\* C18: the matcher of handle_strategy_request runs against an empty
\* directory only after a refresh was attempted in the same request; a
\* refresh that fails leaves cached_components as it was before the
\* request; and every step leaves cached_components as it was or replaces
\* it by the whole list of the tracker.
C18_RefreshAllOrNothing ==
    /\ []((MatcherRan /\ cached_components = {}) => RefreshAttempted)
    /\ [][/\ RefreshFailed => cached_components' = cached_components
          /\ cached_components' \in {cached_components, tracker_components}
         ]_vars

\* The matcher has run against the empty directory that the refresh of the
\* same request returned.
C18_Witness ==
    /\ MatcherRan
    /\ cached_components = {}
    /\ Refreshed(h_calls)

\* C19: the directory is refreshed when it is empty or older than
\* CACHE_DURATION: the matcher never runs against names that were fetched
\* more than CACHE_DURATION seconds before.
C19_RefreshAfterTTL ==
    (MatcherRan /\ cached_components # {}) =>
        now - refreshed_at <= CACHE_DURATION

\* The request thread h is past the guard with the key of its delivery.
PassedGuard(h) == r_pc[h] \in {"passed", "acting"}

\* C20: of two deliveries with the same dedup key that are handled at the
\* same time at most one passes the guard: no other delivery runs between
\* the membership test and the insertion into the processed set.
C20_OnePassesTheGuard ==
    \A g, h \in 1..MaxHandlers :
        (g # h /\ KeyOf(r_req[g]) = KeyOf(r_req[h]))
            => ~(PassedGuard(g) /\ PassedGuard(h))

\* The step is the delivery of an app_mention event that was delivered
\* before.
MentionRedelivered ==
    /\ h_pc' = "responding"
    /\ h_req'.etype = "app_mention"
    /\ MessageKey(h_req') \in mentions

\* C21: every event-callback delivery that leads to side effects is gated
\* by a key checked against the processed set before its first call, for an
\* app_mention as for a direct message: a redelivered app_mention event
\* causes no chat-platform or tracker call.
C21_MentionGated ==
    [][MentionRedelivered => h_calls' = <<>>]_vars

\* The step is the delivery of a message or app_mention event that carries
\* bot_id.
BotEventDelivered ==
    /\ h_pc' = "responding"
    /\ h_req'.body = "event_callback"
    /\ h_req'.etype \in {"message", "app_mention"}
    /\ h_req'.bot

\* C22: for an event_callback of type message or app_mention whose event
\* carries bot_id, the handler makes no chat-platform, tracker or LLM call
\* and changes neither the processed sets nor the directory cache.
C22_BotEventsIgnored ==
    [][BotEventDelivered =>
          /\ h_calls' = <<>>
          /\ UNCHANGED <<processed_requests, processed_messages,
                         cached_components>>]_vars

\* The step is the delivery of a message event without bot_id in a group
\* channel.
GroupMessageDelivered ==
    /\ h_pc' = "responding"
    /\ h_req'.body = "event_callback"
    /\ h_req'.etype = "message"
    /\ h_req'.channel_type = "group"
    /\ ~h_req'.bot

\* C23: a message event without bot_id is dispatched to the resolver when
\* its channel_type is group as when it is im: the calls made for it are
\* those made for the same event with channel_type im.
C23_GroupLikeIm ==
    [][GroupMessageDelivered =>
          \E ff \in FaultsOf(h_req') :
              h_calls' = slack_events([h_req' EXCEPT !.channel_type = "im"],
                                      processed_requests, processed_messages,
                                      cached_components, ff[1], ff[2]).calls
      ]_vars

\* The components the request of f_arg is matched against.
DirectoryUsed ==
    IF f_arg.cache = {} THEN tracker_components ELSE f_arg.cache

\* The components that match the text of f_arg.
Offered == Candidates(SearchTerm(f_arg.text), DirectoryUsed)

\* The positions of the outcome messages among the calls made.
OutcomeCalls ==
    {i \in 1..Len(f_val.calls) :
        f_val.calls[i].what \in {"components", "not_found"}}

\* The call handle_strategy_request ended with.
LastCall == f_val.calls[Len(f_val.calls)]

SelectThread(n) == threads[n].kind = "select"

\* C25: a select_component_<c> action that passes the dedup guard leads to
\* one replacement of the original message that offers two views, with the
\* action ids view_impact_<c> and view_bugs_<c> for the same c, and to no
\* tracker or LLM call: the handler makes no call, the post of the thread
\* it starts can always be made, and a thread whose post returned has made
\* that post and nothing else.
C25_SelectOffersTwoViews ==
    /\ (h_pc = "responding" /\ h_spawned
           /\ StartsWith(h_req.action_id, p_select)) =>
          /\ h_calls = <<>>
          /\ SelectThread(Cardinality(Started(threads)))
          /\ SelectId(threads[Cardinality(Started(threads))].component)
               = h_req.action_id
    /\ \A n \in 1..MaxThreads : SelectThread(n) =>
          /\ \A i \in 1..Len(threads[n].calls) :
                ~TrackerOrLLM(threads[n].calls[i])
          /\ threads[n].pc = "start" =>
                threads[n].calls = <<>> /\ ENABLED SelectPost(n, TRUE)
          /\ threads[n].pc = "done" =>
                threads[n].calls =
                    <<[api |-> "response_url_post", what |-> "options",
                       ids |-> <<ViewId(w_impact, threads[n].component),
                                 ViewId(w_bugs, threads[n].component)>>]>>

\* The options for "Maps" have replaced the original message.
C25_Witness ==
    /\ SelectThread(1)
    /\ threads[1].pc = "done"
    /\ threads[1].component = c_Maps
    /\ Len(threads[1].calls) = 1

\* The thread n was started by a view_ action.
ViewThread(n) == threads[n].kind = "view"

\* The positions of the calls of thread n that carry what.
CallsOf(n, what) ==
    {i \in 1..Len(threads[n].calls) : threads[n].calls[i].what = what}

\* The i-th call of thread n returned: it is not the call that raised.
Returned(n, i) ==
    IF i = Len(threads[n].calls) THEN threads[n].pc # "failing"
    ELSE threads[n].calls[i + 1].what # "error"

\* C27: in the view-selection task the "No <view> data found" replacement
\* is posted only when the analysis has nothing to render: once a result
\* batch has been delivered to the requester, no "not found" and no error
\* message follows it.
C27_NoDataOnlyWhenEmpty ==
    \A n \in 1..MaxThreads : ViewThread(n) =>
        \A i \in CallsOf(n, "batch") \cup CallsOf(n, "blocks") :
            Returned(n, i) =>
                \A j \in CallsOf(n, "no_data") \cup CallsOf(n, "error") :
                    j < i

\* C28: every progress update of a view-selection analysis after the first
\* edits the same status message: one run creates one status message.
C28_OneStatusMessage ==
    \A n \in 1..MaxThreads : ViewThread(n) =>
        Cardinality({i \in CallsOf(n, "progress") :
                        threads[n].calls[i].api = "chat_postMessage"}) <= 1

\* C29: the messages of a run that started from an interaction (a user
\* context exists) are visible to that user only: no call of a background
\* thread posts to the channel.
C29_NothingPostedToChannel ==
    \A n \in 1..MaxThreads :
        \A i \in 1..Len(threads[n].calls) :
            threads[n].calls[i].api # "chat_postMessage"

\* C30: every background task ends having posted the results or an error
\* message to the response_url: no task ends by an uncaught exception.
C30_NoTaskCrashes ==
    \A n \in 1..MaxThreads : threads[n].pc # "crashed"

\* C26: every action id the bot generates for a component c
\* (select_component_, view_impact_, view_bugs_, download_,
\* download_bugs_) is decoded by slack_events to the same kind and the same
\* c, also when c holds underscores or begins with "bugs_".
C26_ActionIdRoundTrip ==
    f_pc = "done" =>
        /\ f_val.kind = f_arg.kind
        /\ f_val.component = f_arg.component

\* The loading message of a finished handle_strategy_request is still
\* displayed when the i-th call is made: it was posted and not deleted.
StatusShownAt(calls, i) ==
    /\ \E j \in 1..(i - 1) :
         calls[j].api = "chat_postMessage" /\ calls[j].what = "loading"
    /\ \A j \in 1..(i - 1) : calls[j].api # "chat_delete"

\* C31: on a failure after a status message has been shown, the error
\* message replaces that status message (an edit of it); no run of the
\* free-text resolution ends with the in-progress status still displayed
\* next to a separately posted error.
C31_ErrorReplacesStatus ==
    f_pc = "done" =>
        \A i \in 1..Len(f_val.calls) :
            (f_val.calls[i].what = "error" /\ StatusShownAt(f_val.calls, i))
                => f_val.calls[i].api = "chat_update"

\* The summaries of the analysis at hand that hold the three clauses.
FullSummaries == {i \in 1..Len(f_arg) : f_arg[i].summary.shape = "full"}

\* C32: for a summary with an Impact, a Fix and a Test clause, the row of
\* download_bugs read by a CSV reader has the Impact, Fix and Test fields
\* equal to the text of the clause alone, embedded double quotes included;
\* the Impact Summary field of download_impact_areas is the text of an
\* Impact clause alone.
C32_CsvRoundTrip ==
    /\ f_pc = "bugs_csv" =>
         \A i \in FullSummaries :
             /\ CsvFields(f_val[i])[5] = f_arg[i].summary.impact
             /\ CsvFields(f_val[i])[6] = f_arg[i].summary.fix
             /\ CsvFields(f_val[i])[7] = f_arg[i].summary.test
    /\ f_pc = "impact_csv" =>
         \A r \in 1..Len(f_val) :
             \E i \in 1..Len(f_arg) :
                 CsvFields(f_val[r])[3] = f_arg[i].summary.impact

\* The Impact clauses of the summaries filed under class k.
ImpactClauses(k) ==
    {f_arg[i].summary.impact :
        i \in {j \in 1..Len(f_arg) :
                 /\ f_arg[j].priority = k
                 /\ f_arg[j].summary.shape \in {"full", "impact_only"}}}

\* C33: in the impact view the impacts listed under a class are the Impact
\* clauses of its issues without duplicates, ordered by non-decreasing
\* length and numbered consecutively from 1.
C33_ImpactsSortedByLength ==
    f_pc = "impact_view" =>
        \A k \in 1..3 :
            /\ {f_val[k][i].impact : i \in 1..Len(f_val[k])} = ImpactClauses(k)
            /\ Len(f_val[k]) = Cardinality(ImpactClauses(k))
            /\ \A i \in 1..Len(f_val[k]) : f_val[k][i].number = i
            /\ \A i \in 1..(Len(f_val[k]) - 1) :
                 Len(f_val[k][i].impact) <= Len(f_val[k][i + 1].impact)

\* C37: for one analysis the non-empty impacts download_impact_areas
\* exports are the non-empty impacts the impact view shows.
C37_ExportEqualsView ==
    f_pc = "impact_csv" =>
        {CsvFields(f_val[r])[3] : r \in 1..Len(f_val)} \ {<<>>}
        = UNION {{ImpactView(f_arg)[k][i].impact :
                     i \in 1..Len(ImpactView(f_arg)[k])} : k \in 1..3}
          \ {<<>>}

\* C34: every customer key of a returned mapping has a summary in one of
\* its three class lists: an issue left out for lack of a severity marker
\* leaves no trace in the result.
C34_NoCustomerWithoutSummary ==
    a_pc = "returned" =>
        \A c \in DOMAIN outcome.map :
            \E k \in 1..3 : outcome.map[c][k] # <<>>

\* C35: the class under which an issue is grouped is the class of its
\* tracker priority, whatever markers its title or the LLM text hold.
C35_ClassOfPriority ==
    a_pc = "returned" =>
        \A c \in DOMAIN outcome.map :
            \A k \in 1..3 :
                \A i \in 1..Len(outcome.map[c][k]) :
                    issues[outcome.map[c][k][i].key].priority = k

\* The seconds of the sleeps in a list.
SleptIn(list) == SumOver([i \in 1..Len(list) |-> list[i]], 1..Len(list))

\* C36: one get_component_analysis call makes at most max_retries requests
\* of the component listing and sleeps at most 2 s + 4 s in all: the loop of
\* get_available_components inside every attempt does not multiply with
\* the loop of get_component_analysis.  Every earlier attempt has made one
\* listing request at least, so the request under way in turn list_attempt
\* of attempt number attempt is the (attempt + list_attempt + 1)-th or a
\* later one; the sleeps of the call so far include those of both loops.
C36_RetriesNotCompounded ==
    /\ a_pc = "listing" => attempt + list_attempt + 1 <= max_retries
    /\ SleptIn(sleeps) + SleptIn(list_sleeps)
         <= BackoffDelay(0) + BackoffDelay(1)

\* The blocks of a batch other than its part header and the completion
\* marker.
IsContent(blk) == blk.what \notin {"part", "complete"}

ContentOf(batch) == SelectSeq(batch, IsContent)

\* The content of the batches from the i-th on, in order.
RECURSIVE ContentFrom(_, _)
ContentFrom(batches, i) ==
    IF i > Len(batches) THEN <<>>
    ELSE ContentOf(batches[i]) \o ContentFrom(batches, i + 1)

\* C38: the batches of format_slack_message, in order and without their
\* part headers and the completion marker, are the flat sequence of blocks
\* (customer header, then for Class 1, 2, 3 and each issue a title block, a
\* details block iff it has a body, a divider); every batch but the last
\* holds 45 of them and the last holds between 1 and 45.
C38_PaginationKeepsAll ==
    f_pc = "done" =>
        /\ ContentFrom(f_val, 1) = AllBlocks(f_arg, 1)
        /\ \A i \in 1..(Len(f_val) - 1) :
             Len(ContentOf(f_val[i])) = batch_size
        /\ f_val # <<>> =>
             Len(ContentOf(f_val[Len(f_val)])) \in 1..batch_size

\* A mapping formatted into two batches or more, the last of them short of
\* 45 blocks, with a summary that has no details.
C38_Witness ==
    /\ f_pc = "done"
    /\ Len(f_val) >= 2
    /\ Len(ContentOf(f_val[Len(f_val)])) < batch_size
    /\ \E i \in 1..Len(f_val) : \E j \in 2..Len(f_val[i]) :
         /\ f_val[i][j - 1].what = "title_link"
         /\ f_val[i][j].type = "divider"

\* The step is the delivery of a webhook request.
Delivery == h_pc = "idle" /\ h_pc' = "responding"

\* The key of the request delivered by the step was in its processed set
\* before the step.
KeyKnown ==
    \/ KeyOf(h_req')[1] = "request" /\ KeyOf(h_req')[2] \in processed_requests
    \/ KeyOf(h_req')[1] = "message" /\ KeyOf(h_req')[2] \in processed_messages

\* C39: the processed sets only grow; the key of a delivery that passed the
\* guard is in its set when the handler has run, also when the handler
\* failed; a delivery whose key is in the set is dropped: it makes no call
\* and starts no thread.
C39_KeysRecordedForGood ==
    [][/\ processed_requests \subseteq processed_requests'
       /\ processed_messages \subseteq processed_messages'
       /\ Delivery =>
            /\ KeyOf(h_req')[1] = "request" =>
                 KeyOf(h_req')[2] \in processed_requests'
            /\ KeyOf(h_req')[1] = "message" =>
                 KeyOf(h_req')[2] \in processed_messages'
            /\ KeyKnown => h_calls' = <<>> /\ ~h_spawned']_vars

\* The handler of a keyed delivery has failed, nothing of it having reached
\* the user, and its key is in the processed set.
C39_Witness ==
    /\ h_pc = "responding"
    /\ h_resp = Error200
    /\ \A i \in 1..Len(h_calls) : h_calls[i].what \in {"loading", "error"}
    /\ \/ KeyOf(h_req)[1] = "request" /\ KeyOf(h_req)[2] \in processed_requests
       \/ KeyOf(h_req)[1] = "message" /\ KeyOf(h_req)[2] \in processed_messages

(***************************************************************************)
(* Specifications.                                                         *)
(***************************************************************************)
\* The call of get_component_analysis that the webhook model leaves idle.
IdleCall ==
    /\ InitCall
    /\ component_name = "Maps"
    /\ issues = <<>>

\* No function application is under way.
IdleFunction ==
    /\ f_pc = "idle"
    /\ f_arg = <<>>
    /\ f_val = <<>>

InitAnalysis == InitCall /\ InitBot /\ IdleFunction /\ InitGuards

\* One call of get_component_analysis, over every input of the model.
SpecAnalysis == InitAnalysis /\ [][NextCall]_vars

InitWebhook == IdleCall /\ InitBot /\ IdleFunction /\ InitGuards

\* The webhook endpoint: the request thread over every payload and every
\* collaborator fault.  It reads nothing a background thread writes, so the
\* threads it starts are left where they start.
SpecWebhook == InitWebhook /\ [][NextHandler]_vars

\* The request thread together with the background threads it starts,
\* under every interleaving of their steps.
SpecThreads == InitWebhook /\ [][NextThreads]_vars

\* format_slack_message applied to one mapping.
InitFormatter == IdleCall /\ InitBot /\ InitGuards /\ InitFormat

SpecFormat == InitFormatter /\ [][Format]_vars

\* The matcher of handle_strategy_request applied to one text and directory.
InitMatcher == IdleCall /\ InitBot /\ InitGuards /\ InitMatch

SpecMatcher == InitMatcher /\ [][Match]_vars

\* handle_strategy_request applied to one text, user and directory cache.
InitRequest == IdleCall /\ InitBot /\ InitGuards /\ InitStrategy

SpecStrategy == InitRequest /\ [][Strategy]_vars

\* The action id of one button, encoded and decoded.
InitButton == IdleCall /\ InitBot /\ InitGuards /\ InitClick

SpecActionIds == InitButton /\ [][Click]_vars

\* The CSV exports and the impact view of one analysis.
InitViews == IdleCall /\ InitBot /\ InitGuards /\ InitExport

SpecExport == InitViews /\ [][NextExport]_vars

\* The dedup guards of slack_events and handle_message_event, with
\* MaxHandlers request threads running at once.
SpecGuards == InitWebhook /\ [][NextGuards]_vars

====
